---- MODULE Spec2Model ----
(***************************************************************************)
(* L28 coin: the ledger store (SafeLedger), the mining worker's tail read  *)
(* and the transaction validator, as state machines.                       *)
(*                                                                         *)
(*   Spec        writers sharing one ledger file through SafeLedger        *)
(*   SpecVerify  verify_integrity over arbitrary ledger contents           *)
(*   SpecVal     validate_transaction and its wrappers                     *)
(*   SpecReward  the reward schedule                                       *)
(***************************************************************************)
EXTENDS Integers, Sequences, FiniteSets, TLC

VARIABLES
    ledger,         \* lines of the ledger file, in file order
    ledger_exists,  \* whether ledger_path exists
    lock_holders,   \* processes holding flock(LOCK_EX) on lock_path
    pc,             \* per writer: position in its current call
    op,             \* per writer: locals of its current call
    temp,           \* per writer: its mkstemp file
    backups,        \* backup files: set of [ts, content]
    clock,          \* wall clock, in seconds
    maint,          \* number of backup / rollback calls started
    report,         \* last verify_integrity report
    tx,             \* the transaction dict handed to the validator
    env,            \* what the validator's oracles read: height, supply, balance
    call,           \* last validator call and its result
    marked,         \* tx ids a wrapper accepted and passed to _mark_seen
    rw,             \* the last two reward-schedule evaluations
    pow,            \* the L28PoW instance and the ledger it reads
    mined,          \* the mine_entry_pow call in progress, or its outcome
    rd,             \* what the unlocked readers returned on the ledger
    bridge,         \* network balances and the bridge coroutines in flight
    cb              \* issuance state shared by concurrent coinbase callers

ledgerVars == <<ledger, ledger_exists, lock_holders, pc, op, temp, backups, clock, maint>>
valVars == <<tx, env, call, marked>>
powSide == <<pow, mined, rd, bridge, cb>>
vars == <<ledger, ledger_exists, lock_holders, pc, op, temp, backups, clock, maint,
          report, tx, env, call, marked, rw, pow, mined, rd, bridge, cb>>

(***************************************************************************)
(* Bounds                                                                  *)
(***************************************************************************)
MaxLen == 2         \* a writer starts mining only while the ledger has fewer lines
MaxMaint == 1       \* backup / rollback calls per run
MaxScan == 3        \* longest ledger handed to verify_integrity in SpecVerify

\* the difficulty controller, the miner and the readers before any call
NoPow == [current_difficulty |-> 0]
NoMined == [st |-> "none"]
NoRead == [st |-> "none"]
NoBridge == [st |-> "none"]
NoCb == [st |-> "none"]

Writers == {"w1", "w2"}
Seconds == {0, 1}   \* the clock readings of a run

(***************************************************************************)
(* Ledger lines.  A line is an entry object, a line that is not JSON, or a *)
(* blank line.  The hash of an entry is modelled by the data it is the     *)
(* digest of, so distinct inputs give distinct hashes.                     *)
(***************************************************************************)
ZeroHash == <<>>

EntryLine(h, hash, prev) ==
    [kind |-> "entry", entry_height |-> h, hash |-> hash, prev |-> prev]

BadLine == [kind |-> "bad", entry_height |-> 0, hash |-> ZeroHash, prev |-> ZeroHash]

BlankLine == [kind |-> "blank", entry_height |-> 0, hash |-> ZeroHash, prev |-> ZeroHash]

GenesisEntry == EntryLine(0, <<0, ZeroHash, "genesis">>, ZeroHash)

NoEntry == BlankLine

\* a line that json.loads reads as a number, a string, a list or null
NonObjectLine == [kind |-> "nonobj", entry_height |-> 0, hash |-> ZeroHash, prev |-> ZeroHash]

Last(s) == s[Len(s)]

\* the non-blank lines, in order
RECURSIVE NonBlank(_)
NonBlank(lines) ==
    IF lines = <<>> THEN <<>>
    ELSE IF lines[1].kind = "blank" THEN NonBlank(Tail(lines))
    ELSE <<lines[1]>> \o NonBlank(Tail(lines))

(***************************************************************************)
(* SafeLedger.verify_integrity: one pass over the lines.                   *)
(***************************************************************************)
ScanInit ==
    [valid |-> TRUE, total_entries |-> 0, hash_chain_intact |-> TRUE,
     duplicate_heights |-> <<>>, broken_links |-> <<>>, errors |-> <<>>,
     prev_set |-> FALSE, prev_hash |-> ZeroHash, heights_seen |-> {}]

BrokenLink(height, expected, got) ==
    [height |-> height, expected |-> expected, got |-> got]

\* the duplicate-height check of one entry
NoteHeight(st, line) ==
    IF line.entry_height \in st.heights_seen
    THEN [st EXCEPT !.duplicate_heights = Append(@, line.entry_height),
                    !.valid = FALSE]
    ELSE [st EXCEPT !.heights_seen = @ \cup {line.entry_height}]

\* the hash-chain check of one entry; the first parsed entry is skipped
NoteLinkSkipFirstOnly(st, line) ==
    IF st.prev_set /\ line.prev # st.prev_hash /\ line.entry_height > 1
    THEN [st EXCEPT !.broken_links =
                        Append(@, BrokenLink(line.entry_height, st.prev_hash, line.prev)),
                    !.hash_chain_intact = FALSE,
                    !.valid = FALSE]
    ELSE st

NoteLink(st, line) ==
    IF st.prev_set /\ line.prev # st.prev_hash
    THEN [st EXCEPT !.broken_links =
                        Append(@, BrokenLink(line.entry_height, st.prev_hash, line.prev)),
                    !.hash_chain_intact = FALSE,
                    !.valid = FALSE]
    ELSE st

ScanEntry(st, line) ==
    LET counted == [st EXCEPT !.total_entries = @ + 1]
        linked == NoteLink(NoteHeight(counted, line), line)
    IN  [linked EXCEPT !.prev_set = TRUE, !.prev_hash = line.hash]

\* n is the 1-based number of the line lines[1]; a line that is JSON but
\* not an object is counted, then entry.get raises AttributeError, which
\* only the outer `except Exception` catches: the loop is left
RECURSIVE ScanLines(_, _, _)
ScanLines(lines, n, st) ==
    IF lines = <<>> THEN st
    ELSE LET line == lines[1] IN
         IF line.kind = "blank" THEN ScanLines(Tail(lines), n + 1, st)
         ELSE IF line.kind = "bad"
         THEN ScanLines(Tail(lines), n + 1,
                        [st EXCEPT !.errors = Append(@, <<"Invalid JSON at line", n>>),
                                   !.valid = FALSE])
         ELSE IF line.kind = "nonobj"
         THEN [st EXCEPT !.total_entries = @ + 1,
                         !.errors = Append(@, <<"Error reading ledger", 0>>),
                         !.valid = FALSE]
         ELSE ScanLines(Tail(lines), n + 1, ScanEntry(st, line))

Report(st) ==
    [valid |-> st.valid, total_entries |-> st.total_entries,
     hash_chain_intact |-> st.hash_chain_intact,
     duplicate_heights |-> st.duplicate_heights,
     broken_links |-> st.broken_links, errors |-> st.errors]

verify_integrity(exists, lines) ==
    IF ~exists
    THEN Report([ScanInit EXCEPT !.valid = FALSE,
                                 !.errors = <<<<"Ledger file not found", 0>>>>])
    ELSE Report(ScanLines(lines, 1, ScanInit))

NoReport == [valid |-> FALSE, total_entries |-> -1, hash_chain_intact |-> FALSE,
             duplicate_heights |-> <<>>, broken_links |-> <<>>, errors |-> <<>>]

(***************************************************************************)
(* SafeLedger.rollback_to_height: the copy loop.  It keeps lines while     *)
(* entry_height <= target, stops at the first higher entry, drops blank    *)
(* lines and raises on a line that is not JSON.                            *)
(***************************************************************************)
\* the comparison off by one: entry_height < target
RECURSIVE RollbackScanStrict(_, _)
RollbackScanStrict(lines, target) ==
    IF lines = <<>> THEN [ok |-> TRUE, content |-> <<>>]
    ELSE LET line == lines[1] IN
         IF line.kind = "blank" THEN RollbackScanStrict(Tail(lines), target)
         ELSE IF line.kind = "bad" THEN [ok |-> FALSE, content |-> <<>>]
         ELSE IF line.entry_height < target
         THEN LET rest == RollbackScanStrict(Tail(lines), target)
              IN  [ok |-> rest.ok, content |-> <<line>> \o rest.content]
         ELSE [ok |-> TRUE, content |-> <<>>]

RECURSIVE RollbackScan(_, _)
RollbackScan(lines, target) ==
    IF lines = <<>> THEN [ok |-> TRUE, content |-> <<>>]
    ELSE LET line == lines[1] IN
         IF line.kind = "blank" THEN RollbackScan(Tail(lines), target)
         ELSE IF line.kind = "bad" THEN [ok |-> FALSE, content |-> <<>>]
         ELSE IF line.entry_height <= target
         THEN LET rest == RollbackScan(Tail(lines), target)
              IN  [ok |-> rest.ok, content |-> <<line>> \o rest.content]
         ELSE [ok |-> TRUE, content |-> <<>>]

(***************************************************************************)
(* The mining worker's view of the tail and the entry it builds on it.     *)
(***************************************************************************)
\* L28PoWWorker.get_last_entry: the last non-blank line, parsed
get_last_entry(lines) == Last(NonBlank(lines))

CanReadTail(exists, lines) ==
    /\ exists
    /\ NonBlank(lines) # <<>>
    /\ \A i \in 1..Len(lines) : lines[i].kind \in {"entry", "blank"}

\* mine_single_entry: height and prev come from the tail the worker read
BuildEntry(tail, w) ==
    EntryLine(tail.entry_height + 1,
              <<tail.entry_height + 1, tail.hash, w>>,
              tail.hash)

(***************************************************************************)
(* Transaction validator (coin/tx_validation.py)                           *)
(***************************************************************************)
L28_MAX_SUPPLY == 28000000
L28_HALVING_INTERVAL == 100000
L28_MAX_COINBASE_REWARD == 50
FutureSkew == 60

RESERVED_SENDERS == {"COINBASE", "__MINT__"}

\* a dict value: an int, a string of digits, the float n + 0.5, another
\* string, or no value
VInt(n) == [t |-> "int", v |-> n]
VStr(n) == [t |-> "str", v |-> n]
VFrac(n) == [t |-> "frac", v |-> n]
VText == [t |-> "text", v |-> 0]
VNone == [t |-> "none", v |-> 0]

\* a missing or None string field
None == "<None>"

IntNone == [some |-> FALSE, v |-> 0]
IntSome(n) == [some |-> TRUE, v |-> n]

\* _as_int: int(v), or None when v is None or int() raises; int() reads a
\* string of digits and cuts the fraction off a non-negative float
as_int(x) ==
    IF x.t \in {"int", "str", "frac"} THEN IntSome(x.v) ELSE IntNone

\* int(50) >> n
RECURSIVE ShiftRight(_, _)
ShiftRight(x, n) ==
    IF n <= 0 \/ x = 0 THEN x ELSE ShiftRight(x \div 2, n - 1)

Max(a, b) == IF a >= b THEN a ELSE b

\* the floor at 1 left out
l28_coinbase_reward_unfloored(height) ==
    IF height < 0 THEN 0
    ELSE ShiftRight(L28_MAX_COINBASE_REWARD, height \div L28_HALVING_INTERVAL)

l28_coinbase_reward(height) ==
    IF height < 0 THEN 0
    ELSE Max(1, ShiftRight(L28_MAX_COINBASE_REWARD, height \div L28_HALVING_INTERVAL))

\* sender alone decides: type and marker ignored
is_coinbase_tx_sender_only(t) ==
    t.sender = "COINBASE"

is_coinbase_tx(t) ==
    /\ t.sender = "COINBASE"
    /\ t.type = "coinbase"
    /\ t.coinbase

\* compute_tx_id: the digest of the canonical encoding of the whole dict,
\* modelled by the dict itself
compute_tx_id(t) == t

Result(ok, reason) == [ok |-> ok, reason |-> reason]
Reject(reason) == Result(FALSE, reason)

\* the call does not return: an exception leaves validate_transaction
Raised == [ok |-> FALSE, reason |-> "<raised>"]

\* the cap compared with the supply already issued, the reward left out
supply_cap_exceeded_issued_only(issued, reward) ==
    issued > L28_MAX_SUPPLY

supply_cap_exceeded(issued, reward) ==
    issued + reward > L28_MAX_SUPPLY

\* the reward checked against the height the transaction claims
CoinbaseConsensusClaimedHeight(t, canonical_h, issued) ==
    LET height_field == as_int(t.height)
        amount == as_int(t.amount)
        reward == l28_coinbase_reward(height_field.v)
    IN  IF ~amount.some THEN Reject("coinbase_amount_not_int")
        ELSE IF amount.v # reward THEN Reject("coinbase_bad_reward")
        ELSE IF supply_cap_exceeded(issued, reward) THEN Reject("coinbase_supply_cap")
        ELSE Result(TRUE, "ok")

\* validate_transaction, coinbase path from the canonical-height check on
CoinbaseConsensus(t, canonical_h, issued) ==
    LET height_field == as_int(t.height)
        amount == as_int(t.amount)
        reward == l28_coinbase_reward(canonical_h)
    IN  IF height_field.v # canonical_h THEN Reject("coinbase_height_mismatch")
        ELSE IF ~amount.some THEN Reject("coinbase_amount_not_int")
        ELSE IF amount.v # reward THEN Reject("coinbase_bad_reward")
        ELSE IF supply_cap_exceeded(issued, reward) THEN Reject("coinbase_supply_cap")
        ELSE Result(TRUE, "ok")

\* validate_transaction, coinbase path: lookups, then the required fields.
\* A lookup is absent (None), ok, raises, or returns a value int() refuses
\* ("illtyped"); int(current_height_lookup()) runs inside a try, while
\* current_issued_lookup() is called outside of one
CoinbasePath(t, height_lookup, issued_lookup, now_ts) ==
    LET miner == IF t.miner # None THEN t.miner ELSE t.receiver
        nonce == as_int(t.nonce)
        height_field == as_int(t.height)
        ts == as_int(t.timestamp)
    IN  IF height_lookup.st = "absent" \/ issued_lookup.st = "absent"
        THEN Reject("missing_consensus_lookups")
        ELSE IF height_lookup.st # "ok" THEN Reject("canonical_height_unavailable")
        ELSE IF issued_lookup.st = "raises" THEN Raised
        ELSE IF issued_lookup.st # "ok" THEN Reject("issued_supply_unavailable")
        ELSE IF t.receiver = None THEN Reject("coinbase_missing_receiver")
        ELSE IF miner = None THEN Reject("coinbase_missing_miner")
        ELSE IF t.receiver # miner THEN Reject("coinbase_receiver_mismatch")
        ELSE IF ~nonce.some THEN Reject("coinbase_missing_nonce")
        ELSE IF ~ts.some THEN Reject("coinbase_missing_timestamp")
        ELSE IF ts.v > now_ts + FutureSkew THEN Reject("coinbase_timestamp_in_future")
        ELSE IF ~height_field.some THEN Reject("coinbase_missing_height")
        ELSE CoinbaseConsensus(t, height_lookup.v, issued_lookup.v)

\* validate_transaction, transfer path; balance is the behaviour of
\* current_balance_lookup: ok with a value, raises, or illtyped
TransferPath(t, pol, verifier, balance, now_ts) ==
    LET amount == as_int(t.amount)
        ts == as_int(t.timestamp)
    IN  IF t.sender = None THEN Reject("missing_sender")
        ELSE IF t.receiver = None THEN Reject("missing_receiver")
        ELSE IF ~amount.some THEN Reject("amount_not_int")
        ELSE IF amount.v < pol.min_tx_amount THEN Reject("amount_too_small")
        ELSE IF amount.v > pol.max_tx_amount THEN Reject("amount_too_large")
        ELSE IF ~ts.some THEN Reject("missing_timestamp")
        ELSE IF ts.v > now_ts + FutureSkew THEN Reject("timestamp_in_future")
        ELSE IF pol.require_signatures /\ verifier = "absent"
        THEN Reject("signature_required_missing_verifier")
        ELSE IF pol.require_signatures /\ verifier = "raises"
        THEN Reject("signature_verify_error")
        ELSE IF pol.require_signatures /\ verifier = "rejects"
        THEN Reject("bad_signature")
        ELSE IF balance.st # "ok" THEN Reject("balance_lookup_error")
        ELSE IF balance.v < amount.v THEN Reject("insufficient_balance")
        ELSE Result(TRUE, "ok")

\* validate_transaction(tx, policy=, current_balance_lookup=, seen_tx_lookup=,
\* verify_signature=, now_ts=, current_issued_lookup=, current_height_lookup=);
\* `seen` is the behaviour of seen_tx_lookup(tx_id): ok with an answer, or
\* raises
validate_transaction(t, pol, balance, seen, verifier, now_ts, issued_lookup, height_lookup) ==
    IF seen.st # "ok" THEN Reject("replay_lookup_error")
    ELSE IF seen.v THEN Reject("replay")
    ELSE IF t.sender \in RESERVED_SENDERS /\ ~is_coinbase_tx(t)
    THEN Reject("reserved_sender_misuse")
    ELSE IF is_coinbase_tx(t)
    THEN CoinbasePath(t, height_lookup, issued_lookup, now_ts)
    ELSE TransferPath(t, pol, verifier, balance, now_ts)


(***************************************************************************)
(* SpecVal: one transaction, validated any number of times, directly with  *)
(* any oracle answers or through the wrappers of smoke.py / invariants.py. *)
(***************************************************************************)
NowTs == 1000

TxSenders == {"COINBASE", "__MINT__", "alice"}
TxReceivers == {"m1", None}
TxMiners == {"m1", "m2", None}
TxTypes == {"coinbase", "transfer"}
TxNonces == {VInt(7), VNone}
TxHeights == {VInt(0), VInt(100000), VStr(0), VNone}
TxTimestamps == {VInt(NowTs), VInt(NowTs + FutureSkew + 1), VNone}
TxAmounts == {VInt(25), VInt(50), VStr(50), VNone}

TxSet ==
    [sender : TxSenders, receiver : TxReceivers, miner : TxMiners,
     type : TxTypes, coinbase : BOOLEAN, nonce : TxNonces, height : TxHeights,
     timestamp : TxTimestamps, amount : TxAmounts]

NoTx == [sender |-> None, receiver |-> None, miner |-> None, type |-> "transfer",
         coinbase |-> FALSE, nonce |-> VNone, height |-> VNone,
         timestamp |-> VNone, amount |-> VNone]

Lookup(n) == [st |-> "ok", v |-> n]
NoLookup == [st |-> "absent", v |-> 0]

CanonicalHeights == {0, 100000}
IssuedSupplies == {0, L28_MAX_SUPPLY - 50, L28_MAX_SUPPLY - 49}
Balances == {25}

\* TxPolicy(require_signatures=False, max_tx_amount=.., min_tx_amount=1)
Policy == [require_signatures |-> FALSE, max_tx_amount |-> 1000, min_tx_amount |-> 1]

NoEnv == [canonical_h |-> 0, issued |-> 0, balance |-> 0]

NoCall == [kind |-> "none", seen |-> FALSE, height_lookup |-> NoLookup,
           issued_lookup |-> NoLookup, was_marked |-> FALSE,
           ok |-> FALSE, reason |-> "none"]

\* what a call was given and what it returned; was_marked: the id had been
\* passed to _mark_seen by an earlier call
CallRecord(kind, seen, hl, il, res) ==
    [kind |-> kind, seen |-> seen, height_lookup |-> hl, issued_lookup |-> il,
     was_marked |-> compute_tx_id(tx) \in marked,
     ok |-> res.ok, reason |-> res.reason]


(***************************************************************************)
(* SafeLedger: the lock, the temp file and the three writing calls.        *)
(***************************************************************************)
NoTemp == [exists |-> FALSE, content |-> <<>>]

NoOp == [kind |-> "none", entry |-> NoEntry, target |-> 0, bts |-> 0,
         pre |-> <<>>, pre_exists |-> FALSE, ret |-> "none"]

BodyPcs == {"a_mkstemp", "a_copy", "a_write", "a_replace", "a_remove", "a_unlock",
            "b_copy", "b_unlock",
            "r_mkstemp", "r_scan", "r_replace", "r_remove", "r_unlock"}

\* inside the `with self.write_lock():` block
InWriteLock(p) == pc[p] \in BodyPcs

\* flock(LOCK_SH) in place of LOCK_EX: holders do not exclude each other
flock_LOCK_SH(p) ==
    lock_holders' = lock_holders \cup {p}

\* write_lock entry: flock(LOCK_EX | LOCK_NB), then the blocking flock(LOCK_EX);
\* either way the call returns only once no other open file description holds it
flock_LOCK_EX(p) ==
    /\ lock_holders = {}
    /\ lock_holders' = {p}

\* write_lock exit: flock(LOCK_UN) and close
flock_LOCK_UN(p) ==
    lock_holders' = lock_holders \ {p}

\* ---- a writer reads the tail and builds the next entry (mine_single_entry)
Observe(p) ==
    /\ pc[p] = "idle"
    /\ Len(ledger) < MaxLen
    /\ CanReadTail(ledger_exists, ledger)
    /\ op' = [op EXCEPT ![p] = [NoOp EXCEPT !.kind = "append",
                                            !.entry = BuildEntry(get_last_entry(ledger), p)]]
    /\ pc' = [pc EXCEPT ![p] = "a_lock"]
    /\ UNCHANGED <<ledger, ledger_exists, lock_holders, temp, backups, clock, maint>>

\* ---- append_entry_safe
AppendLock(p) ==
    /\ pc[p] = "a_lock"
    /\ flock_LOCK_EX(p)
    /\ op' = [op EXCEPT ![p].pre = ledger, ![p].pre_exists = ledger_exists]
    /\ pc' = [pc EXCEPT ![p] = "a_mkstemp"]
    /\ UNCHANGED <<ledger, ledger_exists, temp, backups, clock, maint>>

AppendMkstemp(p) ==
    /\ pc[p] = "a_mkstemp"
    /\ \/ /\ temp' = [temp EXCEPT ![p] = [exists |-> TRUE, content |-> <<>>]]
          /\ pc' = [pc EXCEPT ![p] = "a_copy"]
          /\ op' = op
       \/ /\ temp' = temp                       \* mkstemp raised
          /\ op' = [op EXCEPT ![p].ret = "false"]
          /\ pc' = [pc EXCEPT ![p] = "a_unlock"]
    /\ UNCHANGED <<ledger, ledger_exists, lock_holders, backups, clock, maint>>

\* the copy forgotten: the temp file starts empty
CopyExistingOmitted(p) == temp[p]

\* shutil.copy2(ledger_path, temp_path) when the ledger exists
CopyExisting(p) ==
    IF ledger_exists THEN [temp[p] EXCEPT !.content = ledger] ELSE temp[p]

AppendCopy(p) ==
    /\ pc[p] = "a_copy"
    /\ \/ /\ temp' = [temp EXCEPT ![p] = CopyExisting(p)]
          /\ pc' = [pc EXCEPT ![p] = "a_write"]
       \/ /\ ledger_exists                      \* copy2 raised
          /\ temp' = temp
          /\ pc' = [pc EXCEPT ![p] = "a_remove"]
    /\ UNCHANGED <<ledger, ledger_exists, lock_holders, op, backups, clock, maint>>

AppendWrite(p) ==
    /\ pc[p] = "a_write"
    /\ \/ /\ temp' = [temp EXCEPT ![p].content = Append(@, op[p].entry)]
          /\ pc' = [pc EXCEPT ![p] = "a_replace"]
       \/ /\ temp' = temp                       \* json.dumps or write raised
          /\ pc' = [pc EXCEPT ![p] = "a_remove"]
    /\ UNCHANGED <<ledger, ledger_exists, lock_holders, op, backups, clock, maint>>

AppendReplace(p) ==
    /\ pc[p] = "a_replace"
    /\ \/ /\ ledger' = temp[p].content          \* os.replace(temp_path, ledger_path)
          /\ ledger_exists' = TRUE
          /\ temp' = [temp EXCEPT ![p] = NoTemp]
          /\ op' = [op EXCEPT ![p].ret = "true"]
          /\ pc' = [pc EXCEPT ![p] = "a_unlock"]
       \/ /\ UNCHANGED <<ledger, ledger_exists, temp, op>>   \* os.replace raised
          /\ pc' = [pc EXCEPT ![p] = "a_remove"]
    /\ UNCHANGED <<lock_holders, backups, clock, maint>>

\* the inner except: os.remove(temp_path); the outer except returns False
AppendRemove(p) ==
    /\ pc[p] = "a_remove"
    /\ temp' = [temp EXCEPT ![p] = NoTemp]
    /\ op' = [op EXCEPT ![p].ret = "false"]
    /\ pc' = [pc EXCEPT ![p] = "a_unlock"]
    /\ UNCHANGED <<ledger, ledger_exists, lock_holders, backups, clock, maint>>

AppendUnlock(p) ==
    /\ pc[p] = "a_unlock"
    /\ flock_LOCK_UN(p)
    /\ op' = [op EXCEPT ![p] = NoOp]
    /\ pc' = [pc EXCEPT ![p] = "idle"]
    /\ UNCHANGED <<ledger, ledger_exists, temp, backups, clock, maint>>

\* ---- create_backup, alone or as the first step of rollback_to_height
RollbackTargets == 0 .. MaxLen

StartBackup(p) ==
    /\ pc[p] = "idle"
    /\ maint < MaxMaint
    /\ maint' = maint + 1
    /\ op' = [op EXCEPT ![p] = [NoOp EXCEPT !.kind = "backup", !.bts = clock]]
    /\ pc' = [pc EXCEPT ![p] = "b_lock"]
    /\ UNCHANGED <<ledger, ledger_exists, lock_holders, temp, backups, clock>>

StartRollback(p) ==
    /\ pc[p] = "idle"
    /\ maint < MaxMaint
    /\ maint' = maint + 1
    /\ \E h \in RollbackTargets :
          op' = [op EXCEPT ![p] = [NoOp EXCEPT !.kind = "rollback", !.target = h,
                                               !.bts = clock]]
    /\ pc' = [pc EXCEPT ![p] = "b_lock"]
    /\ UNCHANGED <<ledger, ledger_exists, lock_holders, temp, backups, clock>>

BackupLock(p) ==
    /\ pc[p] = "b_lock"
    /\ flock_LOCK_EX(p)
    /\ pc' = [pc EXCEPT ![p] = "b_copy"]
    /\ UNCHANGED <<ledger, ledger_exists, op, temp, backups, clock, maint>>

\* shutil.copy2(ledger_path, backup_path): the path is named by the second
BackupCopy(p) ==
    /\ pc[p] = "b_copy"
    /\ \/ /\ ledger_exists
          /\ backups' = {b \in backups : b.ts # op[p].bts}
                            \cup {[ts |-> op[p].bts, content |-> ledger]}
          /\ op' = op
       \/ /\ backups' = backups                 \* copy2 raised: the call raises
          /\ op' = [op EXCEPT ![p].ret = "raised"]
    /\ pc' = [pc EXCEPT ![p] = "b_unlock"]
    /\ UNCHANGED <<ledger, ledger_exists, lock_holders, temp, clock, maint>>

BackupUnlock(p) ==
    /\ pc[p] = "b_unlock"
    /\ flock_LOCK_UN(p)
    /\ IF op[p].kind = "rollback" /\ op[p].ret # "raised"
       THEN /\ pc' = [pc EXCEPT ![p] = "r_lock"]
            /\ op' = op
       ELSE /\ pc' = [pc EXCEPT ![p] = "idle"]
            /\ op' = [op EXCEPT ![p] = NoOp]
    /\ UNCHANGED <<ledger, ledger_exists, temp, backups, clock, maint>>

\* ---- rollback_to_height after its backup
RollbackLock(p) ==
    /\ pc[p] = "r_lock"
    /\ flock_LOCK_EX(p)
    /\ op' = [op EXCEPT ![p].pre = ledger, ![p].pre_exists = ledger_exists]
    /\ pc' = [pc EXCEPT ![p] = "r_mkstemp"]
    /\ UNCHANGED <<ledger, ledger_exists, temp, backups, clock, maint>>

RollbackMkstemp(p) ==
    /\ pc[p] = "r_mkstemp"
    /\ \/ /\ temp' = [temp EXCEPT ![p] = [exists |-> TRUE, content |-> <<>>]]
          /\ pc' = [pc EXCEPT ![p] = "r_scan"]
          /\ op' = op
       \/ /\ temp' = temp                       \* mkstemp raised, outside the try
          /\ op' = [op EXCEPT ![p].ret = "raised"]
          /\ pc' = [pc EXCEPT ![p] = "r_unlock"]
    /\ UNCHANGED <<ledger, ledger_exists, lock_holders, backups, clock, maint>>

RollbackCopyLoop(p) ==
    /\ pc[p] = "r_scan"
    /\ LET scan == RollbackScan(ledger, op[p].target) IN
       \/ /\ ledger_exists
          /\ scan.ok
          /\ temp' = [temp EXCEPT ![p].content = scan.content]
          /\ pc' = [pc EXCEPT ![p] = "r_replace"]
       \/ /\ temp' = temp                       \* open, json.loads or write raised
          /\ pc' = [pc EXCEPT ![p] = "r_remove"]
    /\ UNCHANGED <<ledger, ledger_exists, lock_holders, op, backups, clock, maint>>

RollbackReplace(p) ==
    /\ pc[p] = "r_replace"
    /\ \/ /\ ledger' = temp[p].content
          /\ temp' = [temp EXCEPT ![p] = NoTemp]
          /\ op' = [op EXCEPT ![p].ret = "true"]
          /\ pc' = [pc EXCEPT ![p] = "r_unlock"]
       \/ /\ UNCHANGED <<ledger, temp, op>>     \* os.replace raised
          /\ pc' = [pc EXCEPT ![p] = "r_remove"]
    /\ UNCHANGED <<ledger_exists, lock_holders, backups, clock, maint>>

\* the except branch without os.remove(temp_path)
RollbackRemoveLeavesTemp(p) ==
    /\ pc[p] = "r_remove"
    /\ temp' = temp
    /\ op' = [op EXCEPT ![p].ret = "false"]
    /\ pc' = [pc EXCEPT ![p] = "r_unlock"]
    /\ UNCHANGED <<ledger, ledger_exists, lock_holders, backups, clock, maint>>

\* except Exception: os.remove(temp_path), return False
RollbackRemove(p) ==
    /\ pc[p] = "r_remove"
    /\ temp' = [temp EXCEPT ![p] = NoTemp]
    /\ op' = [op EXCEPT ![p].ret = "false"]
    /\ pc' = [pc EXCEPT ![p] = "r_unlock"]
    /\ UNCHANGED <<ledger, ledger_exists, lock_holders, backups, clock, maint>>

RollbackUnlock(p) ==
    /\ pc[p] = "r_unlock"
    /\ flock_LOCK_UN(p)
    /\ op' = [op EXCEPT ![p] = NoOp]
    /\ pc' = [pc EXCEPT ![p] = "idle"]
    /\ UNCHANGED <<ledger, ledger_exists, temp, backups, clock, maint>>

Tick ==
    /\ clock + 1 \in Seconds
    /\ clock' = clock + 1
    /\ UNCHANGED <<ledger, ledger_exists, lock_holders, pc, op, temp, backups, maint>>


Init ==
    /\ ledger = <<GenesisEntry>>
    /\ ledger_exists = TRUE
    /\ lock_holders = {}
    /\ pc = [p \in Writers |-> "idle"]
    /\ op = [p \in Writers |-> NoOp]
    /\ temp = [p \in Writers |-> NoTemp]
    /\ backups = {}
    /\ clock = 0
    /\ maint = 0
    /\ report = NoReport
    /\ tx = NoTx
    /\ env = NoEnv
    /\ call = NoCall
    /\ marked = {}
    /\ rw = <<>>
    /\ pow = NoPow
    /\ mined = NoMined
    /\ rd = NoRead
    /\ bridge = NoBridge
    /\ cb = NoCb

\* what the ledger store never touches
validatorSide == <<report, tx, env, call, marked, rw, pow, mined, rd, bridge, cb>>

Next ==
    \/ \E p \in Writers : Observe(p) /\ UNCHANGED validatorSide
    \/ \E p \in Writers : AppendLock(p) /\ UNCHANGED validatorSide
    \/ \E p \in Writers : AppendMkstemp(p) /\ UNCHANGED validatorSide
    \/ \E p \in Writers : AppendCopy(p) /\ UNCHANGED validatorSide
    \/ \E p \in Writers : AppendWrite(p) /\ UNCHANGED validatorSide
    \/ \E p \in Writers : AppendReplace(p) /\ UNCHANGED validatorSide
    \/ \E p \in Writers : AppendRemove(p) /\ UNCHANGED validatorSide
    \/ \E p \in Writers : AppendUnlock(p) /\ UNCHANGED validatorSide
    \/ \E p \in Writers : StartBackup(p) /\ UNCHANGED validatorSide
    \/ \E p \in Writers : StartRollback(p) /\ UNCHANGED validatorSide
    \/ \E p \in Writers : BackupLock(p) /\ UNCHANGED validatorSide
    \/ \E p \in Writers : BackupCopy(p) /\ UNCHANGED validatorSide
    \/ \E p \in Writers : BackupUnlock(p) /\ UNCHANGED validatorSide
    \/ \E p \in Writers : RollbackLock(p) /\ UNCHANGED validatorSide
    \/ \E p \in Writers : RollbackMkstemp(p) /\ UNCHANGED validatorSide
    \/ \E p \in Writers : RollbackCopyLoop(p) /\ UNCHANGED validatorSide
    \/ \E p \in Writers : RollbackReplace(p) /\ UNCHANGED validatorSide
    \/ \E p \in Writers : RollbackRemove(p) /\ UNCHANGED validatorSide
    \/ \E p \in Writers : RollbackUnlock(p) /\ UNCHANGED validatorSide
    \/ Tick /\ UNCHANGED validatorSide

Spec == Init /\ [][Next]_vars

(***************************************************************************)
(* SpecVerify: verify_integrity called on any ledger file of up to MaxScan *)
(* lines.                                                                  *)
(***************************************************************************)
ScanHeights == {0, 1, 2}
ScanHashes == {<<1>>, <<2>>}

ScanLineSet ==
    {EntryLine(h, hs, pv) : h \in ScanHeights, hs \in ScanHashes,
                            pv \in ScanHashes \cup {ZeroHash}}
        \cup {BadLine, BlankLine}

SeqsUpTo(S, n) == UNION {[1..k -> S] : k \in 0..n}

InitVerify ==
    /\ ledger \in SeqsUpTo(ScanLineSet, MaxScan)
    /\ ledger_exists \in BOOLEAN
    /\ ledger_exists \/ ledger = <<>>
    /\ lock_holders = {}
    /\ pc = [p \in Writers |-> "idle"]
    /\ op = [p \in Writers |-> NoOp]
    /\ temp = [p \in Writers |-> NoTemp]
    /\ backups = {}
    /\ clock = 0
    /\ maint = 0
    /\ report = NoReport
    /\ tx = NoTx
    /\ env = NoEnv
    /\ call = NoCall
    /\ marked = {}
    /\ rw = <<>>
    /\ pow = NoPow
    /\ mined = NoMined
    /\ rd = NoRead
    /\ bridge = NoBridge
    /\ cb = NoCb

VerifyIntegrityCall ==
    /\ report' = verify_integrity(ledger_exists, ledger)
    /\ UNCHANGED <<ledgerVars, tx, env, call, marked, rw, powSide>>

NextVerify == VerifyIntegrityCall

SpecVerify == InitVerify /\ [][NextVerify]_vars

InitVal ==
    /\ ledger = <<GenesisEntry>>
    /\ ledger_exists = TRUE
    /\ lock_holders = {}
    /\ pc = [p \in Writers |-> "idle"]
    /\ op = [p \in Writers |-> NoOp]
    /\ temp = [p \in Writers |-> NoTemp]
    /\ backups = {}
    /\ clock = 0
    /\ maint = 0
    /\ report = NoReport
    /\ tx \in TxSet
    /\ env \in [canonical_h : CanonicalHeights, issued : IssuedSupplies,
                 balance : Balances]
    /\ call = NoCall
    /\ marked = {}
    /\ rw = <<>>
    /\ pow = NoPow
    /\ mined = NoMined
    /\ rd = NoRead
    /\ bridge = NoBridge
    /\ cb = NoCb

\* validate_transaction recording the accepted id itself
ValidateTransactionCallMarking ==
    \E seen \in BOOLEAN, wired \in BOOLEAN :
        LET hl == IF wired THEN Lookup(env.canonical_h) ELSE NoLookup
            il == IF wired THEN Lookup(env.issued) ELSE NoLookup
            res == validate_transaction(tx, Policy, Lookup(env.balance), Lookup(seen),
                                        "absent", NowTs, il, hl)
        IN  /\ call' = CallRecord("validate_transaction", seen, hl, il, res)
            /\ marked' = IF res.ok THEN marked \cup {compute_tx_id(tx)} ELSE marked
            /\ UNCHANGED <<ledgerVars, report, tx, env, rw, powSide>>

\* a caller of validate_transaction: its seen lookup answers either way, and
\* it passes the two consensus lookups or leaves them out
ValidateTransactionCall ==
    \E seen \in BOOLEAN, wired \in BOOLEAN :
        LET hl == IF wired THEN Lookup(env.canonical_h) ELSE NoLookup
            il == IF wired THEN Lookup(env.issued) ELSE NoLookup
        IN  /\ call' = CallRecord("validate_transaction", seen, hl, il,
                                  validate_transaction(tx, Policy, Lookup(env.balance),
                                                       Lookup(seen), "absent", NowTs,
                                                       il, hl))
            /\ UNCHANGED <<ledgerVars, report, tx, env, marked, rw, powSide>>

\* the wrapper body shared by smoke.validate_tx_default and
\* invariants._validate: the lookups are built by the call itself, `seen` is
\* a new empty set, and the accepted id is added to that set
WrapperCall(kind) ==
    LET seen_set == {}
        seen == compute_tx_id(tx) \in seen_set
        hl == Lookup(env.canonical_h)
        il == Lookup(env.issued)
        res == validate_transaction(tx, Policy, Lookup(env.balance), Lookup(seen),
                                    "absent", NowTs, il, hl)
    IN  /\ call' = CallRecord(kind, seen, hl, il, res)
        /\ marked' = IF res.ok THEN marked \cup {compute_tx_id(tx)} ELSE marked
        /\ UNCHANGED <<ledgerVars, report, tx, env, rw, powSide>>

\* smoke.validate_tx_default: issued supply, height and balance are read off
\* the ledger object
ValidateTxDefault == WrapperCall("validate_tx_default")

\* invariants._validate: canonical_height and issued_supply are parameters
ValidateWrapper == WrapperCall("_validate")

NextVal ==
    \/ ValidateTransactionCall
    \/ ValidateTxDefault
    \/ ValidateWrapper

SpecVal == InitVal /\ [][NextVal]_vars

(***************************************************************************)
(* Claims about the ledger store                                           *)
(***************************************************************************)
WaitingForLock(p) == pc[p] \in {"a_lock", "b_lock", "r_lock"}

\* C1: at most one writer is inside the write_lock block of a ledger file at
\* any time, and a writer inside it is the only holder of the lock; so at
\* most one append_entry_safe / create_backup / rollback body is in flight.
C1_MutualExclusion ==
    /\ \A p, q \in Writers : p # q => ~(InWriteLock(p) /\ InWriteLock(q))
    /\ \A p \in Writers : InWriteLock(p) => lock_holders = {p}

\* a writer is inside the block while another one waits for the lock
C1_Witness ==
    \E p, q \in Writers : p # q /\ InWriteLock(p) /\ WaitingForLock(q)

HeightCount(lines, h) ==
    Cardinality({i \in 1..Len(lines) :
                    lines[i].kind = "entry" /\ lines[i].entry_height = h})

\* C2: when two writers built entries for the same next height on the same
\* tail and both appended, the ledger holds one entry per height and
\* verify_integrity reports valid.
C2_OneWinnerPerHeight ==
    (\A p \in Writers : pc[p] = "idle") =>
        /\ \A i \in 1..Len(ledger) : HeightCount(ledger, ledger[i].entry_height) = 1
        /\ verify_integrity(ledger_exists, ledger).valid

InAppendBody(p) == op[p].kind = "append" /\ InWriteLock(p)

IntactChain(lines) ==
    \A i \in 1..Len(lines) :
        /\ lines[i].kind = "entry"
        /\ lines[i].entry_height = i - 1
        /\ i > 1 => lines[i].prev = lines[i - 1].hash

RolledBack(p) == pc[p] = "r_unlock" /\ op[p].ret = "true"

\* C9: on a ledger of heights 0..n with an intact chain and 0 <= h <= n, a
\* successful rollback_to_height(h) leaves a ledger on which
\* verify_integrity reports total_entries = h+1 and valid, and whose last
\* entry has the hash the entry at height h had before.
C9_RollbackThenVerify ==
    \A p \in Writers :
        (/\ RolledBack(p)
         /\ op[p].pre # <<>>
         /\ IntactChain(op[p].pre)
         /\ 0 <= op[p].target /\ op[p].target <= Len(op[p].pre) - 1) =>
            LET rep == verify_integrity(ledger_exists, ledger)
            IN  /\ rep.total_entries = op[p].target + 1
                /\ rep.valid
                /\ ledger # <<>>
                /\ Last(ledger).hash = op[p].pre[op[p].target + 1].hash

\* a rollback that cut entries off an intact chain
C9_Witness ==
    \E p \in Writers :
        /\ RolledBack(p)
        /\ IntactChain(op[p].pre)
        /\ 0 <= op[p].target /\ op[p].target < Len(op[p].pre) - 1

Entries(lines) == SelectSeq(lines, LAMBDA l : l.kind = "entry")

\* the k-th smallest element of a finite set of numbers
Nth(S, k) == CHOOSE j \in S : Cardinality({i \in S : i <= j}) = k

RewardHeights == {-1, 0, 1, 99999, 100000, 199999, 200000, 399999, 400000,
                  500000, 599999, 600000, 700000}

InitReward ==
    /\ ledger = <<GenesisEntry>>
    /\ ledger_exists = TRUE
    /\ lock_holders = {}
    /\ pc = [p \in Writers |-> "idle"]
    /\ op = [p \in Writers |-> NoOp]
    /\ temp = [p \in Writers |-> NoTemp]
    /\ backups = {}
    /\ clock = 0
    /\ maint = 0
    /\ report = NoReport
    /\ tx = NoTx
    /\ env = NoEnv
    /\ call = NoCall
    /\ marked = {}
    /\ rw = <<>>
    /\ pow = NoPow
    /\ mined = NoMined
    /\ rd = NoRead
    /\ bridge = NoBridge
    /\ cb = NoCb

RewardCall ==
    \E h \in RewardHeights :
        LET eval == [height |-> h, reward |-> l28_coinbase_reward(h)]
        IN  /\ rw' = <<IF rw = <<>> THEN eval ELSE rw[2], eval>>
            /\ UNCHANGED <<ledgerVars, report, tx, env, call, marked, powSide>>

NextReward == RewardCall

SpecReward == InitReward /\ [][NextReward]_vars

(***************************************************************************)
(* Claims about the validator                                              *)
(***************************************************************************)
Called == call.kind # "none"

\* the oracles were passed and answered
Wired == call.height_lookup.st = "ok" /\ call.issued_lookup.st = "ok"

\* strict coinbase: sender COINBASE, type coinbase, marker set
StrictCoinbase(t) == t.sender = "COINBASE" /\ t.type = "coinbase" /\ t.coinbase = TRUE

\* the coinbase checks that come before the height comparison all pass
PassesBeforeHeight ==
    /\ ~call.seen
    /\ Wired
    /\ tx.receiver # None
    /\ tx.miner \in {None, tx.receiver}
    /\ tx.nonce.t \in {"int", "str"}
    /\ tx.timestamp.t \in {"int", "str"}
    /\ tx.timestamp.v <= NowTs + 60

\* C4: a strict coinbase whose height field (read as the integer it holds)
\* is missing or differs from the canonical height the oracle returned is
\* never accepted, whatever its amount; when the earlier checks pass and
\* the height is present, the reason is coinbase_height_mismatch.
C4_HeightMismatchRejected ==
    (Called /\ StrictCoinbase(tx) /\ Wired) =>
        LET present == tx.height.t \in {"int", "str"}
            differs == present /\ tx.height.v # call.height_lookup.v
        IN  /\ (~present \/ differs) => ~call.ok
            /\ (differs /\ PassesBeforeHeight) =>
                   call.reason = "coinbase_height_mismatch"

\* height 100000 with the reward of height 100000, canonical height 0
C4_Witness ==
    /\ Called /\ StrictCoinbase(tx)
    /\ tx.height = VInt(100000) /\ tx.amount = VInt(25)
    /\ call.height_lookup = Lookup(0)
    /\ call.reason = "coinbase_height_mismatch"

\* the reward the claim speaks of, at the canonical height of the call
CanonicalReward == l28_coinbase_reward(call.height_lookup.v)

\* C5: a coinbase validated while issued + RewardSchedule(canonical height)
\* exceeds 28,000,000 is never accepted, with reason coinbase_supply_cap
\* when every earlier check passes; every accepted coinbase has
\* issued + amount <= 28,000,000.
C5_SupplyCap ==
    (Called /\ StrictCoinbase(tx) /\ Wired) =>
        /\ call.issued_lookup.v + CanonicalReward > 28000000 =>
              /\ ~call.ok
              /\ (/\ PassesBeforeHeight
                  /\ tx.height.t \in {"int", "str"}
                  /\ tx.height.v = call.height_lookup.v
                  /\ tx.amount.t \in {"int", "str"}
                  /\ tx.amount.v = CanonicalReward) =>
                     call.reason = "coinbase_supply_cap"
        /\ call.ok =>
              /\ tx.amount.t \in {"int", "str"}
              /\ call.issued_lookup.v + tx.amount.v <= 28000000

\* a coinbase rejected for the cap with one unit of room missing
C5_Witness ==
    /\ Called /\ StrictCoinbase(tx)
    /\ call.issued_lookup = Lookup(28000000 - 49)
    /\ call.reason = "coinbase_supply_cap"

\* C6: a transaction whose sender is COINBASE or __MINT__ and which is not a
\* strict coinbase is never accepted; unless its id is reported seen, the
\* reason is reserved_sender_misuse.
C6_ReservedSender ==
    (Called /\ tx.sender \in {"COINBASE", "__MINT__"} /\ ~StrictCoinbase(tx)) =>
        /\ ~call.ok
        /\ ~call.seen => call.reason = "reserved_sender_misuse"

\* COINBASE used as the sender of a transfer that is otherwise acceptable
C6_Witness ==
    /\ Called
    /\ tx.sender = "COINBASE" /\ tx.type = "transfer"
    /\ tx.receiver # None /\ tx.amount = VInt(50) /\ tx.timestamp = VInt(NowTs)
    /\ call.reason = "reserved_sender_misuse"

\* C7: once a transaction was accepted and its id recorded as seen, every
\* later validation of it is rejected with reason replay: by
\* validate_transaction when its seen lookup reports the id, and by the
\* wrappers validate_tx_default / _validate that mark accepted ids as seen.
C7_ReplayRejected ==
    (Called /\ (call.seen \/ call.was_marked)) =>
        ~call.ok /\ call.reason = "replay"

\* 50 >> k written as a division
HalvedReward(h) ==
    LET k == h \div 100000
        halved == 50 \div (2 ^ k)
    IN  IF halved >= 1 THEN halved ELSE 1

\* C8: for every height h >= 0 the reward is at least 1, is non-increasing
\* in h and equals max(1, 50 >> (h div 100000)); reward(0) = 50,
\* reward(99999) = 50 and reward(100000) = 25.
C8_RewardSchedule ==
    rw # <<>> =>
        /\ \A i \in {1, 2} :
              rw[i].height >= 0 =>
                  /\ rw[i].reward >= 1
                  /\ rw[i].reward = HalvedReward(rw[i].height)
                  /\ rw[i].height = 0 => rw[i].reward = 50
                  /\ rw[i].height = 99999 => rw[i].reward = 50
                  /\ rw[i].height = 100000 => rw[i].reward = 25
        /\ (rw[1].height >= 0 /\ rw[1].height <= rw[2].height) =>
              rw[1].reward >= rw[2].reward

\* the schedule evaluated on both sides of the floor
C8_Witness ==
    /\ rw # <<>>
    /\ rw[1].height = 599999 /\ rw[1].reward = 1
    /\ rw[2].height = 600000 /\ rw[2].reward = 1

(***************************************************************************)
(* Difficulty controller and miner (l28_pow_upgrade.py).  Timestamps are   *)
(* counted in milliseconds, so TARGET_ENTRY_TIME = 0.89 s is 890.          *)
(***************************************************************************)
GENESIS_LOCKED == 100060
TARGET_ENTRY_MS == 890
DIFFICULTY_WINDOW == 1440
MIN_DIFFICULTY == 12
MAX_DIFFICULTY == 16
BASE_REWARD == 28
MIN_RECENT == 100

\* A ledger as the controller and the worker read it: n parsed entries, the
\* last one at height tail with hash tail_hash and cumulative supply supply;
\* entry i (1..n) carries ts = t0 + gap * (i - 1).
Chain(n, tail, gap) ==
    [n |-> n, tail |-> tail, gap |-> gap, t0 |-> 0,
     tail_hash |-> [pre |-> [form |-> "given"], zeros |-> MIN_DIFFICULTY],
     supply |-> BASE_REWARD * n]

EntryTs(chain, i) == chain.t0 + chain.gap * (i - 1)

\* the locked range without its last height
is_genesis_locked_strict(entry_height) == entry_height < GENESIS_LOCKED

is_genesis_locked(entry_height) == entry_height <= GENESIS_LOCKED

\* _get_recent_entries(count): entries[-count:] when there are more than
\* count entries, all of them otherwise; kept as length, first ts, last ts
get_recent_entries(chain, count) ==
    LET len == IF chain.n > count THEN count ELSE chain.n
    IN  [len |-> len,
         first_ts |-> EntryTs(chain, chain.n - len + 1),
         last_ts |-> EntryTs(chain, chain.n)]

\* ratio = time_span / expected_time, compared without division
RatioBelow07(time_span, expected_time) == 10 * time_span < 7 * expected_time
RatioAbove15(time_span, expected_time) == 2 * time_span > 3 * expected_time

Min(a, b) == IF a <= b THEN a ELSE b

\* the min / max left out of the adjustment
RetargetUnclamped(current, time_span, expected_time) ==
    IF RatioBelow07(time_span, expected_time) THEN current + 1
    ELSE IF RatioAbove15(time_span, expected_time) THEN current - 1
    ELSE current

\* the two adjustments exchanged
RetargetSwapped(current, time_span, expected_time) ==
    IF RatioBelow07(time_span, expected_time) THEN Max(current - 1, MIN_DIFFICULTY)
    ELSE IF RatioAbove15(time_span, expected_time) THEN Min(current + 1, MAX_DIFFICULTY)
    ELSE current

\* calculate_difficulty, the adjustment
Retarget(current, time_span, expected_time) ==
    IF RatioBelow07(time_span, expected_time) THEN Min(current + 1, MAX_DIFFICULTY)
    ELSE IF RatioAbove15(time_span, expected_time) THEN Max(current - 1, MIN_DIFFICULTY)
    ELSE current

\* calculate_difficulty(entry_height) on the instance P reading chain:
\* the value returned and the instance afterwards
calculate_difficulty(P, chain, entry_height) ==
    IF entry_height \in DOMAIN P.cache
    THEN [ret |-> P.cache[entry_height], P |-> P, how |-> "cache"]
    ELSE IF entry_height < GENESIS_LOCKED + DIFFICULTY_WINDOW
    THEN [ret |-> MIN_DIFFICULTY, P |-> P, how |-> "below_window"]
    ELSE LET recent == get_recent_entries(chain, DIFFICULTY_WINDOW) IN
         IF recent.len < MIN_RECENT
         THEN [ret |-> P.current_difficulty, P |-> P, how |-> "few_entries"]
         ELSE LET time_span == recent.last_ts - recent.first_ts
                  expected_time == TARGET_ENTRY_MS * recent.len
                  new_diff == Retarget(P.current_difficulty, time_span, expected_time)
              IN  [ret |-> new_diff,
                   P |-> [current_difficulty |-> new_diff,
                          cache |-> (entry_height :> new_diff) @@ P.cache],
                   how |-> "retarget"]

\* L28PoW.__init__
NewPoW == [current_difficulty |-> MIN_DIFFICULTY, cache |-> <<>>]

(***************************************************************************)
(* Hashing.  A SHA-256 hex digest is modelled by the text it is the digest *)
(* of (distinct texts give distinct digests) together with its number of   *)
(* leading zero digits, which the model draws from ZeroCounts.             *)
(***************************************************************************)
ZeroCounts == {11, 13, 16}

sha256_hexdigest(text, zeros) == [pre |-> text, zeros |-> zeros]

\* json.dumps(obj, sort_keys=True, separators=(',', ':'))
json_dumps_sorted(obj) == [form |-> "canonical_json", obj |-> obj]

\* compute_entry_hash: sha256 of f"{entry_height}{prev_hash}{payload_str}{nonce}"
compute_entry_hash(entry_height, prev_hash, payload, nonce, zeros) ==
    sha256_hexdigest([form |-> "height+prev+payload+nonce",
                      entry_height |-> entry_height,
                      prev_hash |-> prev_hash,
                      payload_str |-> json_dumps_sorted(payload),
                      nonce |-> nonce],
                     zeros)

\* entry_hash.startswith('0' * difficulty)
MeetsDifficulty(hash, difficulty) == hash.zeros >= difficulty

\* mine_entry_pow: the payload of attempt nonce
MiningPayload(miner_id, nonce) ==
    [type |-> "mining", miner |-> miner_id, timestamp |-> "utcnow", nonce |-> nonce]

\* mine_entry_pow: the entry returned for a qualifying hash
MinedEntry(entry_height, entry_hash, prev_hash, current_supply, difficulty, payload) ==
    [entry_height |-> entry_height,
     hash |-> entry_hash,
     prev |-> prev_hash,
     current_supply |-> current_supply + BASE_REWARD,
     reward |-> BASE_REWARD,
     difficulty |-> difficulty,
     qubits |-> 50, poi_q |-> 1, poi_v |-> 100, validator_s |-> 100,
     ts |-> "time",
     payload |-> payload]

(***************************************************************************)
(* blockless.py: append_entry                                              *)
(***************************************************************************)
MAX_SUPPLY == 28000000
INITIAL_REWARD == 28
HALVING_INTERVAL == 210000

\* calculate_entry_reward; INITIAL_REWARD / 2 ** halvings is exact in
\* integers for the halvings 0..2 that heights below 630000 give
calculate_entry_reward(entry_height, current_supply) ==
    LET halvings == entry_height \div HALVING_INTERVAL
        reward == INITIAL_REWARD \div (2 ^ halvings)
    IN  IF current_supply >= MAX_SUPPLY THEN 0
        ELSE IF current_supply + reward > MAX_SUPPLY THEN MAX_SUPPLY - current_supply
        ELSE reward

\* append_entry: entry_data, the dict that is hashed
BlocklessEntryData(chain, payload) ==
    [ts |-> "time",
     payload |-> payload,
     qubits |-> 50, validator_s |-> 100, poi_q |-> 1, poi_v |-> 100,
     reward |-> calculate_entry_reward(chain.n, chain.supply),
     prev |-> chain.tail_hash,
     entry_height |-> chain.n,
     current_supply |-> chain.supply + calculate_entry_reward(chain.n, chain.supply)]

\* entry_data["hash"] = entry_hash
WithHash(entry_data, entry_hash) ==
    [f \in DOMAIN entry_data \cup {"hash"} |->
        IF f = "hash" THEN entry_hash ELSE entry_data[f]]

\* append_entry: the line written
BlocklessEntry(chain, payload, zeros) ==
    LET entry_data == BlocklessEntryData(chain, payload)
    IN  WithHash(entry_data, sha256_hexdigest(json_dumps_sorted(entry_data), zeros))

\* the ledger after one more entry was appended to the file
ChainAppend(chain, entry) ==
    [chain EXCEPT !.n = @ + 1, !.tail = entry.entry_height,
                  !.tail_hash = entry.hash, !.supply = entry.current_supply]

(***************************************************************************)
(* SpecDiff: calculate_difficulty called at any heights on one L28PoW      *)
(* instance, over a ledger whose pace may change.                          *)
(* SpecPow: mine_entry_pow called directly or by the worker's              *)
(* mine_single_entry on one instance and one ledger; append_entry stores   *)
(* blockless entries in the same file.                                     *)
(***************************************************************************)
MaxTries == 2       \* largest max_attempts handed to mine_entry_pow
MaxAppends == 1     \* entries appended to the ledger in one run
MaxPaceChanges == 1 \* times the ledger's pace changes in one run of SpecDiff

PowHeights == {GENESIS_LOCKED - 1, GENESIS_LOCKED, GENESIS_LOCKED + 1,
               GENESIS_LOCKED + DIFFICULTY_WINDOW - 1} \cup
              (GENESIS_LOCKED + DIFFICULTY_WINDOW .. GENESIS_LOCKED + DIFFICULTY_WINDOW + 4)

\* ms between entries: ratios 0.67, 0.73, 1.46 and 1.57 on a full window
Gaps == {600, 650, 1300, 1400}

\* an empty ledger, short ledgers, and gapless ledgers (n = tail + 1) whose
\* next height is locked, just above the lock, past the window, the first
\* height of the second reward era, and the height at which BASE_REWARD per
\* entry has added up to MAX_SUPPLY
ChainShapes == {<<0, -1>>,
                <<HALVING_INTERVAL, HALVING_INTERVAL - 1>>,
                <<MAX_SUPPLY \div BASE_REWARD, MAX_SUPPLY \div BASE_REWARD - 1>>,
                <<MIN_RECENT - 1, GENESIS_LOCKED + DIFFICULTY_WINDOW - 1>>,
                <<MIN_RECENT, GENESIS_LOCKED + DIFFICULTY_WINDOW - 1>>,
                <<GENESIS_LOCKED, GENESIS_LOCKED - 1>>,
                <<GENESIS_LOCKED + 1, GENESIS_LOCKED>>,
                <<GENESIS_LOCKED + DIFFICULTY_WINDOW, GENESIS_LOCKED + DIFFICULTY_WINDOW - 1>>}

ChainSet == {Chain(sh[1], sh[2], g) : sh \in ChainShapes, g \in Gaps}

NoDiffCall == [h |-> -1, before |-> 0, after |-> 0, ret |-> 0, how |-> "none"]

\* the record of one calculate_difficulty call
DiffCall(P, h, r) ==
    [h |-> h, before |-> P.current_difficulty, after |-> r.P.current_difficulty,
     ret |-> r.ret, how |-> r.how]

InitPow ==
    /\ ledger = <<GenesisEntry>>
    /\ ledger_exists = TRUE
    /\ lock_holders = {}
    /\ pc = [p \in Writers |-> "idle"]
    /\ op = [p \in Writers |-> NoOp]
    /\ temp = [p \in Writers |-> NoTemp]
    /\ backups = {}
    /\ clock = 0
    /\ maint = 0
    /\ report = NoReport
    /\ tx = NoTx
    /\ env = NoEnv
    /\ call = NoCall
    /\ marked = {}
    /\ rw = <<>>
    /\ pow \in {[P |-> NewPoW, chain |-> c, last |-> NoDiffCall, appended |-> {},
                 stored |-> 0, paces |-> 0] : c \in ChainSet}
    /\ mined = NoMined
    /\ rd = NoRead
    /\ bridge = NoBridge
    /\ cb = NoCb

powFrame == <<ledgerVars, report, tx, env, call, marked, rw, rd, bridge, cb>>

CalculateDifficultyCall ==
    /\ \E h \in PowHeights :
          LET r == calculate_difficulty(pow.P, pow.chain, h)
          IN  pow' = [pow EXCEPT !.P = r.P, !.last = DiffCall(pow.P, h, r)]
    /\ UNCHANGED <<mined, powFrame>>

\* entries arrive at another pace: the window the next call reads differs
PaceChanges ==
    /\ pow.paces < MaxPaceChanges
    /\ \E g \in Gaps \ {pow.chain.gap} :
          pow' = [pow EXCEPT !.chain.gap = g, !.paces = @ + 1, !.last = NoDiffCall]
    /\ UNCHANGED <<mined, powFrame>>

NextDiff ==
    \/ CalculateDifficultyCall
    \/ PaceChanges

SpecDiff == InitPow /\ [][NextDiff]_vars

\* the heights mine_entry_pow is called with
MineHeights == {GENESIS_LOCKED, GENESIS_LOCKED + 1, GENESIS_LOCKED + DIFFICULTY_WINDOW}

\* the instance is used by one caller at a time
PowIdle == mined.st # "mining"

\* mine_entry_pow up to the mining loop
MineBegin(entry_height, prev_hash, miner_id, current_supply, max_attempts, caller) ==
    IF is_genesis_locked(entry_height)
    THEN /\ mined' = [st |-> "PermissionError", caller |-> caller,
                      entry_height |-> entry_height, tried |-> <<>>]
         /\ pow' = pow
    ELSE LET r == calculate_difficulty(pow.P, pow.chain, entry_height)
         IN  /\ mined' = [st |-> "mining", caller |-> caller,
                          entry_height |-> entry_height, prev_hash |-> prev_hash,
                          miner_id |-> miner_id, current_supply |-> current_supply,
                          max_attempts |-> max_attempts, difficulty |-> r.ret,
                          tried |-> <<>>]
             /\ pow' = [pow EXCEPT !.P = r.P, !.last = DiffCall(pow.P, entry_height, r)]

\* a direct call of mine_entry_pow
MineEntryPowCall ==
    /\ PowIdle
    /\ \E h \in MineHeights, max_attempts \in 0..MaxTries :
          MineBegin(h, pow.chain.tail_hash, "m1", pow.chain.supply, max_attempts, "direct")
    /\ UNCHANGED powFrame

\* for nonce in range(max_attempts): one more with <= in place of <
LoopRunsOneMore(m) == Len(m.tried) <= m.max_attempts

\* for nonce in range(max_attempts)
LoopRuns(m) == Len(m.tried) < m.max_attempts

\* one pass of the mining loop: hash the payload with the next nonce and
\* return the entry when the hash meets the difficulty
MineTry ==
    /\ mined.st = "mining"
    /\ LoopRuns(mined)
    /\ \E zeros \in ZeroCounts :
          LET nonce == Len(mined.tried)
              payload == MiningPayload(mined.miner_id, nonce)
              entry_hash == compute_entry_hash(mined.entry_height, mined.prev_hash,
                                               payload, nonce, zeros)
              tried == Append(mined.tried, zeros)
          IN  IF MeetsDifficulty(entry_hash, mined.difficulty)
              THEN mined' = [st |-> "entry", caller |-> mined.caller,
                             entry_height |-> mined.entry_height,
                             max_attempts |-> mined.max_attempts,
                             difficulty |-> mined.difficulty, tried |-> tried,
                             entry |-> MinedEntry(mined.entry_height, entry_hash,
                                                  mined.prev_hash, mined.current_supply,
                                                  mined.difficulty, payload)]
              ELSE mined' = [mined EXCEPT !.tried = tried]
    /\ UNCHANGED <<pow, powFrame>>

\* the loop ran out of nonces: return None
MineExhausted ==
    /\ mined.st = "mining"
    /\ ~LoopRuns(mined)
    /\ mined' = [st |-> "exhausted", caller |-> mined.caller,
                 entry_height |-> mined.entry_height,
                 max_attempts |-> mined.max_attempts,
                 difficulty |-> mined.difficulty, tried |-> mined.tried]
    /\ UNCHANGED <<pow, powFrame>>

\* mine_single_entry up to the mining loop: read the tail, refuse a locked
\* height, ask for the difficulty, call mine_entry_pow
WorkerMineSingleEntry ==
    /\ PowIdle
    /\ pow.stored < MaxAppends
    /\ IF pow.chain.n = 0
       THEN /\ mined' = [st |-> "RuntimeError", caller |-> "worker",
                         entry_height |-> -1, tried |-> <<>>]
            /\ pow' = pow
       ELSE LET next_height == pow.chain.tail + 1 IN
            IF is_genesis_locked(next_height)
            THEN /\ mined' = [st |-> "locked", caller |-> "worker",
                              entry_height |-> next_height, tried |-> <<>>]
                 /\ pow' = pow
            ELSE LET r == calculate_difficulty(pow.P, pow.chain, next_height)
                     r2 == calculate_difficulty(r.P, pow.chain, next_height)
                 IN  /\ mined' = [st |-> "mining", caller |-> "worker",
                                  entry_height |-> next_height,
                                  prev_hash |-> pow.chain.tail_hash,
                                  miner_id |-> "w1",
                                  current_supply |-> pow.chain.supply,
                                  max_attempts |-> MaxTries, difficulty |-> r2.ret,
                                  tried |-> <<>>]
                     /\ pow' = [pow EXCEPT !.P = r2.P,
                                           !.last = DiffCall(r.P, next_height, r2)]
    /\ UNCHANGED powFrame

\* mine_single_entry after a successful mine_entry_pow: append the entry
WorkerAppend ==
    /\ mined.st = "entry"
    /\ mined.caller = "worker"
    /\ mined' = [mined EXCEPT !.st = "appended"]
    /\ pow' = [pow EXCEPT !.chain = ChainAppend(@, mined.entry),
                          !.appended = @ \cup {mined.entry.entry_height},
                          !.stored = @ + 1]
    /\ UNCHANGED powFrame

\* blockless append_entry on the same file
BlocklessAppendEntry ==
    /\ PowIdle
    /\ pow.stored < MaxAppends
    /\ \E zeros \in ZeroCounts :
          LET entry == BlocklessEntry(pow.chain, [type |-> "data"], zeros)
          IN  /\ mined' = [st |-> "stored", caller |-> "append_entry",
                           entry_height |-> entry.entry_height, tried |-> <<>>,
                           entry |-> entry]
              /\ pow' = [pow EXCEPT !.chain = ChainAppend(@, entry), !.stored = @ + 1]
    /\ UNCHANGED powFrame

NextPow ==
    \/ MineEntryPowCall
    \/ MineTry
    \/ MineExhausted
    \/ WorkerMineSingleEntry
    \/ WorkerAppend
    \/ BlocklessAppendEntry

SpecPow == InitPow /\ [][NextPow]_vars

\* the mining loop is not preempted for ever
SpecPowFair == SpecPow /\ WF_vars(MineTry) /\ WF_vars(MineExhausted)

(***************************************************************************)
(* Entry hashes                                                            *)
(***************************************************************************)
\* the entry as a dict with the hash key removed
WithoutHash(entry) == [f \in DOMAIN entry \ {"hash"} |-> entry[f]]

\* C11: every entry the system creates and stores (a mined entry appended by
\* the worker, or an entry stored by append_entry) has a hash equal to the
\* SHA-256 of the canonical encoding of the entry with the hash removed
C11_StoredHashCanonical ==
    mined.st \in {"appended", "stored"} =>
        mined.entry.hash.pre = json_dumps_sorted(WithoutHash(mined.entry))

\* append_entry alone keeps the rule
BlocklessHashCanonical ==
    mined.st = "stored" =>
        mined.entry.hash.pre = json_dumps_sorted(WithoutHash(mined.entry))

(***************************************************************************)
(* Genesis lock                                                            *)
(***************************************************************************)
\* C12: a mine_entry_pow call for a height at or below GENESIS_LOCKED ends
\* in PermissionError before any nonce is hashed, and the worker never
\* appends an entry whose height is at or below GENESIS_LOCKED
C12_GenesisLocked ==
    /\ (mined.st # "none" /\ mined.caller = "direct"
        /\ mined.entry_height <= GENESIS_LOCKED)
          => (mined.st = "PermissionError" /\ mined.tried = <<>>)
    /\ (mined.st # "none" /\ mined.caller = "worker" /\ mined.entry_height >= 0
        /\ mined.entry_height <= GENESIS_LOCKED)
          => (mined.st = "locked" /\ mined.tried = <<>>)
    /\ \A h \in pow.appended : h > GENESIS_LOCKED

\* mine_entry_pow was called for the last locked height and raised
C12_Witness ==
    /\ mined.st = "PermissionError"
    /\ mined.entry_height = GENESIS_LOCKED
    /\ mined.tried = <<>>

(***************************************************************************)
(* Difficulty                                                              *)
(***************************************************************************)
\* C13: after any sequence of calculate_difficulty calls, at any heights
\* and over any ledger, current_difficulty, every memoized value and the
\* value the last call returned lie in MIN_DIFFICULTY..MAX_DIFFICULTY, and
\* the last call moved current_difficulty by at most one
C13_DifficultyBounded ==
    /\ pow.P.current_difficulty \in MIN_DIFFICULTY..MAX_DIFFICULTY
    /\ \A h \in DOMAIN pow.P.cache : pow.P.cache[h] \in MIN_DIFFICULTY..MAX_DIFFICULTY
    /\ pow.last.how # "none" =>
          /\ pow.last.ret \in MIN_DIFFICULTY..MAX_DIFFICULTY
          /\ pow.last.after - pow.last.before \in {-1, 0, 1}

\* a retarget over a window filled too fast, with current_difficulty already
\* at MAX_DIFFICULTY
C13_Witness ==
    /\ pow.last.how = "retarget"
    /\ pow.last.before = MAX_DIFFICULTY
    /\ pow.last.after = MAX_DIFFICULTY
    /\ pow.chain.n >= DIFFICULTY_WINDOW
    /\ RatioBelow07(pow.chain.gap * (DIFFICULTY_WINDOW - 1),
                    TARGET_ENTRY_MS * DIFFICULTY_WINDOW)

MiningOutcomeOk ==
    /\ mined.st \in {"mining", "entry", "appended", "exhausted"} =>
          /\ mined.entry_height > GENESIS_LOCKED
          /\ Len(mined.tried) <= mined.max_attempts
    /\ mined.st \in {"entry", "appended"} =>
          LET n == Len(mined.tried) IN
          /\ n >= 1
          /\ mined.tried[n] >= mined.difficulty
          /\ \A i \in 1..(n - 1) : mined.tried[i] < mined.difficulty
          /\ mined.entry.payload.nonce = n - 1
          /\ mined.entry.hash.zeros = mined.tried[n]
          /\ mined.entry.difficulty = mined.difficulty
    /\ mined.st = "exhausted" =>
          /\ Len(mined.tried) = mined.max_attempts
          /\ \A i \in 1..Len(mined.tried) : mined.tried[i] < mined.difficulty

OracleTxs ==
    {[sender |-> "COINBASE", receiver |-> "m1", miner |-> "m1", type |-> "coinbase",
      coinbase |-> TRUE, nonce |-> VInt(7), height |-> VInt(0),
      timestamp |-> VInt(NowTs), amount |-> VInt(50)],
     [sender |-> "alice", receiver |-> "m1", miner |-> None, type |-> "transfer",
      coinbase |-> FALSE, nonce |-> VNone, height |-> VNone,
      timestamp |-> VInt(NowTs), amount |-> VInt(25)],
     [sender |-> "alice", receiver |-> "m1", miner |-> None, type |-> "transfer",
      coinbase |-> FALSE, nonce |-> VNone, height |-> VNone,
      timestamp |-> VInt(NowTs), amount |-> VFrac(25)]}

Raises == [st |-> "raises", v |-> 0]
IllTyped == [st |-> "illtyped", v |-> 0]

SeenOracles == {Lookup(FALSE), Lookup(TRUE), Raises}
BalanceOracles == {Lookup(25), Lookup(0), Raises, IllTyped}
HeightOracles == {Lookup(0), NoLookup, Raises, IllTyped}
IssuedOracles == {Lookup(0), NoLookup, Raises, IllTyped}
Verifiers == {"accepts", "rejects", "raises", "absent"}

\* TxPolicy(require_signatures=True, ..)
PolicySigned == [Policy EXCEPT !.require_signatures = TRUE]

InitOracle ==
    /\ ledger = <<GenesisEntry>>
    /\ ledger_exists = TRUE
    /\ lock_holders = {}
    /\ pc = [p \in Writers |-> "idle"]
    /\ op = [p \in Writers |-> NoOp]
    /\ temp = [p \in Writers |-> NoTemp]
    /\ backups = {}
    /\ clock = 0
    /\ maint = 0
    /\ report = NoReport
    /\ tx \in OracleTxs
    /\ env = [canonical_h |-> 0, issued |-> 0, balance |-> 25]
    /\ call = NoCall
    /\ marked = {}
    /\ rw = <<>>
    /\ pow = NoPow
    /\ mined = NoMined
    /\ rd = NoRead
    /\ bridge = NoBridge
    /\ cb = NoCb

\* one call of validate_transaction: what each oracle did and what came back
OracleCall ==
    \E seen \in SeenOracles, balance \in BalanceOracles, hl \in HeightOracles,
       il \in IssuedOracles, verifier \in Verifiers, pol \in {Policy, PolicySigned} :
        LET res == validate_transaction(tx, pol, balance, seen, verifier, NowTs, il, hl)
        IN  /\ call' = [kind |-> "validate_transaction", seen |-> seen,
                        balance_lookup |-> balance, height_lookup |-> hl,
                        issued_lookup |-> il, verifier |-> verifier,
                        require_signatures |-> pol.require_signatures,
                        was_marked |-> FALSE, ok |-> res.ok, reason |-> res.reason]
            /\ UNCHANGED <<ledgerVars, report, tx, env, marked, rw, powSide>>

NextOracle == OracleCall

SpecOracle == InitOracle /\ [][NextOracle]_vars

\* an oracle of the call raised or returned a value of the wrong type
OracleFailed ==
    \/ call.seen.st # "ok"
    \/ (is_coinbase_tx(tx) /\ call.height_lookup.st \in {"raises", "illtyped"})
    \/ (is_coinbase_tx(tx) /\ call.issued_lookup.st \in {"raises", "illtyped"})
    \/ (~is_coinbase_tx(tx) /\ call.balance_lookup.st # "ok")
    \/ (~is_coinbase_tx(tx) /\ call.require_signatures /\ call.verifier = "raises")

\* C16: whatever the oracles do, validate_transaction returns its triple and
\* never raises, and a call with a failing oracle ends in a rejection
C16_NeverRaises ==
    call.kind # "none" =>
        /\ call.reason # "<raised>"
        /\ OracleFailed => ~call.ok

MaxWait == 4        \* seconds the clock of SpecLock runs

Timeouts == {1, 2}

\* write_lock(timeout) called: the lock file is opened and flock is next
LockRequest(p) ==
    /\ pc[p] = "idle"
    /\ \E timeout \in Timeouts :
          op' = [op EXCEPT ![p] = [kind |-> "write_lock", timeout |-> timeout,
                                   since |-> clock, ret |-> "none"]]
    /\ pc' = [pc EXCEPT ![p] = "w_lock"]
    /\ UNCHANGED <<ledger, ledger_exists, lock_holders, temp, backups, clock, maint>>

\* flock(LOCK_EX | LOCK_NB) succeeded, or the blocking flock(LOCK_EX) that
\* follows BlockingIOError returned; timeout is not read by either
LockEnter(p) ==
    /\ pc[p] = "w_lock"
    /\ flock_LOCK_EX(p)
    /\ pc' = [pc EXCEPT ![p] = "w_body"]
    /\ UNCHANGED <<ledger, ledger_exists, op, temp, backups, clock, maint>>

\* the with block ends: flock(LOCK_UN), close
LockExit(p) ==
    /\ pc[p] = "w_body"
    /\ flock_LOCK_UN(p)
    /\ pc' = [pc EXCEPT ![p] = "idle"]
    /\ op' = [op EXCEPT ![p] = NoOp]
    /\ UNCHANGED <<ledger, ledger_exists, temp, backups, clock, maint>>

LockTick ==
    /\ clock < MaxWait
    /\ clock' = clock + 1
    /\ UNCHANGED <<ledger, ledger_exists, lock_holders, pc, op, temp, backups, maint>>

NextLock ==
    \/ \E p \in Writers : LockRequest(p) /\ UNCHANGED validatorSide
    \/ \E p \in Writers : LockEnter(p) /\ UNCHANGED validatorSide
    \/ \E p \in Writers : LockExit(p) /\ UNCHANGED validatorSide
    \/ LockTick /\ UNCHANGED validatorSide

SpecLock == Init /\ [][NextLock]_vars

\* C18: a writer that asked for the lock with a timeout while another
\* writer holds it is not left waiting once the timeout has elapsed: by
\* then its request has failed
C18_LockTimeout ==
    \A p \in Writers :
        (pc[p] = "w_lock" /\ lock_holders # {}) =>
            clock - op[p].since <= op[p].timeout

HasBadLine(lines) == \E i \in 1..Len(lines) : lines[i].kind = "bad"

\* L28PoWWorker.get_last_entry: json.loads on every non-blank line, only
\* FileNotFoundError caught
get_last_entry_outcome(exists, lines) ==
    IF ~exists THEN [st |-> "RuntimeError", entry |-> NoEntry]
    ELSE IF HasBadLine(lines) THEN [st |-> "JSONDecodeError", entry |-> NoEntry]
    ELSE IF NonBlank(lines) = <<>> THEN [st |-> "RuntimeError", entry |-> NoEntry]
    ELSE [st |-> "ok", entry |-> get_last_entry(lines)]

\* L28PoW._get_recent_entries: json.loads on every non-blank line, only
\* FileNotFoundError caught
get_recent_entries_outcome(exists, lines, count) ==
    IF ~exists THEN [st |-> "ok", entries |-> <<>>]
    ELSE IF HasBadLine(lines) THEN [st |-> "JSONDecodeError", entries |-> <<>>]
    ELSE LET entries == NonBlank(lines) IN
         [st |-> "ok",
          entries |-> IF Len(entries) > count
                      THEN SubSeq(entries, Len(entries) - count + 1, Len(entries))
                      ELSE entries]

\* blockless.head_hash: the hash of the last non-blank line, and 64 zeros
\* when there is no such line or it does not parse
head_hash(exists, lines) ==
    IF ~exists \/ lines = <<>> THEN ZeroHash
    ELSE IF NonBlank(lines) = <<>> THEN ZeroHash
    ELSE IF Last(NonBlank(lines)).kind = "bad" THEN ZeroHash
    ELSE Last(NonBlank(lines)).hash

ReadLineSet == {GenesisEntry, EntryLine(1, <<1>>, GenesisEntry.hash),
                EntryLine(2, <<2>>, <<1>>), BadLine, BlankLine}

InitRead ==
    /\ ledger \in SeqsUpTo(ReadLineSet, MaxScan)
    /\ ledger_exists \in BOOLEAN
    /\ ledger_exists \/ ledger = <<>>
    /\ lock_holders = {}
    /\ pc = [p \in Writers |-> "idle"]
    /\ op = [p \in Writers |-> NoOp]
    /\ temp = [p \in Writers |-> NoTemp]
    /\ backups = {}
    /\ clock = 0
    /\ maint = 0
    /\ report = NoReport
    /\ tx = NoTx
    /\ env = NoEnv
    /\ call = NoCall
    /\ marked = {}
    /\ rw = <<>>
    /\ pow = NoPow
    /\ mined = NoMined
    /\ rd = NoRead
    /\ bridge = NoBridge
    /\ cb = NoCb

readFrame == <<ledgerVars, report, tx, env, call, marked, rw, pow, mined, bridge, cb>>

GetLastEntryCall ==
    /\ LET r == get_last_entry_outcome(ledger_exists, ledger)
       IN  rd' = [st |-> r.st, reader |-> "get_last_entry", entries |-> <<r.entry>>,
                  hash |-> r.entry.hash]
    /\ UNCHANGED readFrame

GetRecentEntriesCall ==
    /\ LET r == get_recent_entries_outcome(ledger_exists, ledger, DIFFICULTY_WINDOW)
       IN  rd' = [st |-> r.st, reader |-> "_get_recent_entries", entries |-> r.entries,
                  hash |-> ZeroHash]
    /\ UNCHANGED readFrame

HeadHashCall ==
    /\ rd' = [st |-> "ok", reader |-> "head_hash", entries |-> <<>>,
              hash |-> head_hash(ledger_exists, ledger)]
    /\ UNCHANGED readFrame

NextRead ==
    \/ GetLastEntryCall
    \/ GetRecentEntriesCall
    \/ HeadHashCall

SpecRead == InitRead /\ [][NextRead]_vars

\* the ledger is well-formed entries followed by one line that does not parse
TornTail(lines) ==
    LET nb == NonBlank(lines) IN
    /\ Len(nb) >= 2
    /\ Last(nb).kind = "bad"
    /\ \A i \in 1..(Len(nb) - 1) : nb[i].kind = "entry"

\* C20: a reader without the lock that meets a trailing line that does not
\* parse ignores the line and takes the last well-formed entry as the tail:
\* it does not fail and does not answer as for an empty ledger
C20_TrailingLineIgnored ==
    (rd.st # "none" /\ ledger_exists /\ TornTail(ledger)) =>
        LET nb == NonBlank(ledger)
            tail == nb[Len(nb) - 1]
        IN  /\ rd.st = "ok"
            /\ rd.reader = "get_last_entry" => rd.entries = <<tail>>
            /\ rd.reader = "_get_recent_entries" => rd.entries = SubSeq(nb, 1, Len(nb) - 1)
            /\ rd.reader = "head_hash" => rd.hash = tail.hash

(***************************************************************************)
(* Mining rounds and the validator                                         *)
(***************************************************************************)
\* C21: an entry mined in a round is in the ledger only after
\* validate_transaction accepted the candidate: the round that appended it
\* holds the record of an accepting validator call
C21_ValidatedBeforeAppend ==
    mined.st = "appended" => (call.kind # "none" /\ call.ok)

(***************************************************************************)
(* SpecBridge: L28BridgeManager.bridge coroutines on one coordinator.  A   *)
(* coroutine gives up control at its two awaits, asyncio.sleep(0.1) and    *)
(* get_consensus, and nowhere else.                                        *)
(***************************************************************************)
MaxBridges == 3     \* bridge calls started in one run
BridgeFunds == 3    \* L28 on MAIN at the start

Networks == {"MAIN", "SPEED", "PRIVACY", "ENTERPRISE"}
Coroutines == {"b1", "b2"}
BridgeAmounts == {1, 2}

NoBridgeCall == [st |-> "idle", from_net |-> "MAIN", to_net |-> "MAIN", amount |-> 0]

\* sum(self.coordinator.network_balances.values())
TotalBalance(balances) ==
    balances["MAIN"] + balances["SPEED"] + balances["PRIVACY"] + balances["ENTERPRISE"]

\* the debit without the credit
ExecuteBridgeDebitOnly(balances, from_net, to_net, amount) ==
    [balances EXCEPT ![from_net] = @ - amount]

\* network_balances[from_net] -= amount; network_balances[to_net] += amount
ExecuteBridge(balances, from_net, to_net, amount) ==
    LET debited == [balances EXCEPT ![from_net] = @ - amount]
    IN  [debited EXCEPT ![to_net] = @ + amount]

\* get_consensus: the four votes are the constant True
get_consensus == TRUE

InitBridge ==
    /\ ledger = <<GenesisEntry>>
    /\ ledger_exists = TRUE
    /\ lock_holders = {}
    /\ pc = [p \in Writers |-> "idle"]
    /\ op = [p \in Writers |-> NoOp]
    /\ temp = [p \in Writers |-> NoTemp]
    /\ backups = {}
    /\ clock = 0
    /\ maint = 0
    /\ report = NoReport
    /\ tx = NoTx
    /\ env = NoEnv
    /\ call = NoCall
    /\ marked = {}
    /\ rw = <<>>
    /\ pow = NoPow
    /\ mined = NoMined
    /\ rd = NoRead
    /\ bridge = [balances |-> [n \in Networks |-> IF n = "MAIN" THEN BridgeFunds ELSE 0],
                 co |-> [c \in Coroutines |-> NoBridgeCall],
                 started |-> 0]
    /\ cb = NoCb

bridgeFrame == <<ledgerVars, report, tx, env, call, marked, rw, pow, mined, rd, cb>>

\* bridge() up to its first await: the balance check
BridgeCall(c) ==
    /\ bridge.co[c].st \in {"idle", "rejected", "done"}
    /\ bridge.started < MaxBridges
    /\ \E from_net \in Networks, to_net \in Networks, amount \in BridgeAmounts :
          bridge' = [bridge EXCEPT
                        !.started = @ + 1,
                        !.co[c] = [st |-> IF bridge.balances[from_net] < amount
                                          THEN "rejected" ELSE "locking",
                                   from_net |-> from_net, to_net |-> to_net,
                                   amount |-> amount]]
    /\ UNCHANGED bridgeFrame

\* asyncio.sleep(0.1) returned; await get_consensus(...)
BridgeLocked(c) ==
    /\ bridge.co[c].st = "locking"
    /\ bridge' = [bridge EXCEPT !.co[c].st = "consensus"]
    /\ UNCHANGED bridgeFrame

\* get_consensus returned: give up on a failed vote, else debit and credit
BridgeExecute(c) ==
    /\ bridge.co[c].st = "consensus"
    /\ LET b == bridge.co[c] IN
       IF ~get_consensus
       THEN bridge' = [bridge EXCEPT !.co[c].st = "rejected"]
       ELSE bridge' = [bridge EXCEPT
                          !.balances = ExecuteBridge(@, b.from_net, b.to_net, b.amount),
                          !.co[c].st = "done"]
    /\ UNCHANGED bridgeFrame

NextBridge ==
    \/ \E c \in Coroutines : BridgeCall(c)
    \/ \E c \in Coroutines : BridgeLocked(c)
    \/ \E c \in Coroutines : BridgeExecute(c)

SpecBridge == InitBridge /\ [][NextBridge]_vars

\* C22: over any sequence of bridge operations the sum of the network
\* balances stays what it was; a rejected bridge changes no balance and a
\* successful one takes amount from the source network and adds amount to
\* the destination network
C22_SupplyPreserved ==
    /\ [](TotalBalance(bridge.balances) = BridgeFunds)
    /\ [][\A c \in Coroutines :
            LET b == bridge'.co[c] IN
            /\ (bridge'.co[c] # bridge.co[c] /\ b.st # "done")
                  => bridge'.balances = bridge.balances
            /\ (bridge'.co[c] # bridge.co[c] /\ b.st = "done")
                  => \A n \in Networks :
                        bridge'.balances[n] - bridge.balances[n] =
                            (IF n = b.to_net THEN b.amount ELSE 0)
                            - (IF n = b.from_net THEN b.amount ELSE 0)]_vars

\* one bridge was rejected and another moved 2 L28 from MAIN to SPEED
C22_Witness ==
    /\ bridge.balances["SPEED"] = 2
    /\ bridge.balances["MAIN"] = BridgeFunds - 2
    /\ \E c \in Coroutines : bridge.co[c].st = "rejected"
    /\ \E c \in Coroutines : bridge.co[c].st = "done"

(***************************************************************************)
(* Order and strictness of the validator's checks                          *)
(***************************************************************************)
\* a required coinbase field is missing, or receiver and miner differ
CoinbaseFieldFailure(t) ==
    LET miner == IF t.miner # None THEN t.miner ELSE t.receiver IN
    \/ t.receiver = None
    \/ miner = None
    \/ t.receiver # miner
    \/ ~as_int(t.nonce).some
    \/ ~as_int(t.timestamp).some
    \/ ~as_int(t.height).some

\* C23: the reason returned is that of the earliest failing check in the
\* documented order; for a coinbase given both oracles, a missing required
\* field or a receiver that is not the miner is reported before the
\* timestamp bound, the height, the amount and the cap are looked at
C23_DocumentedOrder ==
    (/\ call.kind = "validate_transaction"
     /\ ~call.seen
     /\ is_coinbase_tx(tx)
     /\ Wired
     /\ CoinbaseFieldFailure(tx))
        => call.reason \in {"coinbase_missing_receiver", "coinbase_missing_miner",
                            "coinbase_receiver_mismatch", "coinbase_missing_nonce",
                            "coinbase_missing_timestamp", "coinbase_missing_height"}

\* C24: every accepted coinbase carries a miner address of its own, equal
\* to its receiver; a coinbase without one is rejected even when its
\* receiver is present
C24_ExplicitMiner ==
    (call.kind # "none" /\ is_coinbase_tx(tx) /\ call.ok)
        => (tx.miner # None /\ tx.miner = tx.receiver)

\* C25: the amount field of every accepted coinbase is the integer
\* RewardSchedule(canonical height) itself, not a value that int() turns
\* into it
C25_ExactAmount ==
    (call.kind # "none" /\ is_coinbase_tx(tx) /\ call.ok)
        => tx.amount = VInt(l28_coinbase_reward(call.height_lookup.v))

\* C26: a transfer is accepted only if sender and receiver are there, its
\* amount is an integer within the policy's range, its timestamp is there
\* and not beyond now + 60, the verifier accepted it when signatures are
\* required, and the sender's balance is at least the amount
C26_TransferAccepted ==
    (call.kind # "none" /\ ~is_coinbase_tx(tx) /\ call.ok) =>
        /\ tx.sender # None /\ tx.receiver # None
        /\ tx.amount.t = "int"
        /\ tx.amount.v >= Policy.min_tx_amount /\ tx.amount.v <= Policy.max_tx_amount
        /\ tx.timestamp.t = "int" /\ tx.timestamp.v <= NowTs + FutureSkew
        /\ call.require_signatures => call.verifier = "accepts"
        /\ call.balance_lookup.st = "ok" /\ call.balance_lookup.v >= tx.amount.v

(***************************************************************************)
(* SpecMix: mining workers, which write their line themselves, next to     *)
(* callers of append_entry_safe on the same ledger file.                   *)
(***************************************************************************)
\* mine_single_entry after mining: open(ledger_path, 'a') and write the
\* line; the tail is not read again and no lock is taken
WorkerAppendRaw(p) ==
    /\ pc[p] = "a_lock"
    /\ op[p].kind = "append"
    /\ ledger_exists
    /\ ledger' = Append(ledger, op[p].entry)
    /\ pc' = [pc EXCEPT ![p] = "idle"]
    /\ op' = [op EXCEPT ![p] = NoOp]
    /\ UNCHANGED <<ledger_exists, lock_holders, temp, backups, clock, maint>>

NextMix ==
    \/ \E p \in Writers : Observe(p) /\ UNCHANGED validatorSide
    \/ \E p \in Writers : WorkerAppendRaw(p) /\ UNCHANGED validatorSide
    \/ \E p \in Writers : AppendLock(p) /\ UNCHANGED validatorSide
    \/ \E p \in Writers : AppendMkstemp(p) /\ UNCHANGED validatorSide
    \/ \E p \in Writers : AppendCopy(p) /\ UNCHANGED validatorSide
    \/ \E p \in Writers : AppendWrite(p) /\ UNCHANGED validatorSide
    \/ \E p \in Writers : AppendReplace(p) /\ UNCHANGED validatorSide
    \/ \E p \in Writers : AppendRemove(p) /\ UNCHANGED validatorSide
    \/ \E p \in Writers : AppendUnlock(p) /\ UNCHANGED validatorSide
    \/ Tick /\ UNCHANGED validatorSide

SpecMix == Init /\ [][NextMix]_vars

\* C27: a worker whose tail went stale while it mined does not append its
\* candidate, so in every reachable ledger each entry's prev is the hash of
\* the entry right before it in the file
C27_PrevLinksTail ==
    \A i \in 2..Len(ledger) : ledger[i].prev = ledger[i - 1].hash

\* C29: no append removes or changes an entry that is in the ledger: every
\* line of the file is still there, at its place, after every step of the
\* writers
C29_CommittedStays ==
    [][\A i \in 1..Len(ledger) : Len(ledger') >= i /\ ledger'[i] = ledger[i]]_vars

(***************************************************************************)
(* Supply along the chain                                                  *)
(***************************************************************************)
\* C28: every entry appended to the ledger carries a cumulative supply that
\* is at most MAX_SUPPLY, is not below the previous entry's, and is the
\* previous entry's plus the entry's reward, the reward being the value of
\* the halving schedule at the entry's height
C28_SupplySchedule ==
    [][pow'.chain.n = pow.chain.n + 1 =>
          LET e == mined'.entry IN
          /\ e.current_supply <= MAX_SUPPLY
          /\ e.current_supply >= pow.chain.supply
          /\ e.current_supply = pow.chain.supply + e.reward
          /\ e.reward = calculate_entry_reward(e.entry_height, pow.chain.supply)]_vars

(***************************************************************************)
(* SpecCoinbase: several callers run the loop body of smoke.main on one    *)
(* ledger object: build the coinbase of the current height, validate it    *)
(* against the ledger's issued supply and height, then apply it.           *)
(***************************************************************************)
MaxCoinbases == 3   \* coinbases handed to the validator in one run

Callers == {"c1", "c2"}

\* each caller mines to its own address
MinerOf(c) == IF c = "c1" THEN "m1" ELSE "m2"

\* the first reward era whose reward is the floor 1
FloorEra ==
    CHOOSE e \in 0..8 :
        /\ l28_coinbase_reward(e * L28_HALVING_INTERVAL) = 1
        /\ \A d \in 0..(e - 1) : l28_coinbase_reward(d * L28_HALVING_INTERVAL) > 1

\* the supply issued by the coinbases of the first e reward eras
RECURSIVE EraSum(_)
EraSum(e) ==
    IF e = 0 THEN 0
    ELSE IF e > FloorEra
    THEN EraSum(FloorEra) + (e - FloorEra) * L28_HALVING_INTERVAL
    ELSE EraSum(e - 1)
            + L28_HALVING_INTERVAL * l28_coinbase_reward((e - 1) * L28_HALVING_INTERVAL)

\* the supply issued once one coinbase per height 0..h-1 was applied
IssuedAfter(h) ==
    EraSum(h \div L28_HALVING_INTERVAL)
        + (h % L28_HALVING_INTERVAL) * l28_coinbase_reward(h)

\* the height whose coinbase, of the floor reward 1, brings the issued
\* supply to L28_MAX_SUPPLY
FinalHeight ==
    FloorEra * L28_HALVING_INTERVAL + (L28_MAX_SUPPLY - 1 - EraSum(FloorEra))

\* ledger states reached by one coinbase per height
CoinbaseHeights == {0, L28_HALVING_INTERVAL - 1, FinalHeight - 1, FinalHeight}

\* mining.build_coinbase_tx: the dict before the id is stored in it
CoinbaseBody(miner, nonce, h, ts) ==
    [sender |-> "COINBASE", receiver |-> miner, amount |-> VInt(l28_coinbase_reward(h)),
     timestamp |-> VInt(ts), type |-> "coinbase", coinbase |-> TRUE,
     signature |-> "COINBASE", miner |-> miner, nonce |-> VInt(nonce),
     height |-> VInt(h), network |-> "MAIN"]

\* tx["id"] = compute_tx_id(tx), then tx["_builder"] = "HARDENED: ..."
WithIdAndBuilder(body) ==
    [f \in DOMAIN body \cup {"id", "_builder"} |->
        IF f = "id" THEN compute_tx_id(body)
        ELSE IF f = "_builder" THEN "HARDENED: COINBASE_BUILDER_REWRITE_V1"
        ELSE body[f]]

\* _build_coinbase_safely(miner, height=h, nonce=1000 + h, ts=ts), which
\* returns what mining.build_coinbase_tx returns
build_coinbase_tx(miner, h) == WithIdAndBuilder(CoinbaseBody(miner, 1000 + h, h, NowTs))

InitCoinbase ==
    /\ ledger = <<GenesisEntry>>
    /\ ledger_exists = TRUE
    /\ lock_holders = {}
    /\ pc = [p \in Writers |-> "idle"]
    /\ op = [p \in Writers |-> NoOp]
    /\ temp = [p \in Writers |-> NoTemp]
    /\ backups = {}
    /\ clock = 0
    /\ maint = 0
    /\ report = NoReport
    /\ tx = NoTx
    /\ env = NoEnv
    /\ call = NoCall
    /\ marked = {}
    /\ rw = <<>>
    /\ pow = NoPow
    /\ mined = NoMined
    /\ rd = NoRead
    /\ bridge = NoBridge
    /\ cb \in {[st |-> "run", issued_supply |-> IssuedAfter(h), mint_height |-> h,
                seen |-> {}, pending |-> [c \in Callers |-> NoTx],
                reason |-> [c \in Callers |-> "none"], validated |-> 0]
               : h \in CoinbaseHeights}

coinbaseFrame == <<ledgerVars, report, tx, env, call, marked, rw, pow, mined, rd, bridge>>

\* the loop body up to the await: build the coinbase of the ledger's height
\* and validate it against the ledger's issued supply, height and seen ids
CoinbaseValidate(c) ==
    /\ cb.pending[c] = NoTx
    /\ cb.validated < MaxCoinbases
    /\ LET t == build_coinbase_tx(MinerOf(c), cb.mint_height)
           res == validate_transaction(t, Policy, Lookup(0),
                                       Lookup(compute_tx_id(t) \in cb.seen), "absent",
                                       NowTs, Lookup(cb.issued_supply),
                                       Lookup(cb.mint_height))
       IN  cb' = [cb EXCEPT !.pending[c] = IF res.ok THEN t ELSE NoTx,
                            !.reason[c] = res.reason,
                            !.validated = @ + 1]
    /\ UNCHANGED coinbaseFrame

\* the rest of the loop body: the accepted coinbase is applied (issued supply
\* += amount, its id marked seen) and the mint height is set to h + 1
CoinbaseApply(c) ==
    /\ cb.pending[c] # NoTx
    /\ LET t == cb.pending[c]
       IN  cb' = [cb EXCEPT !.issued_supply = @ + as_int(t.amount).v,
                            !.seen = @ \cup {compute_tx_id(t)},
                            !.mint_height = as_int(t.height).v + 1,
                            !.pending[c] = NoTx]
    /\ UNCHANGED coinbaseFrame

NextCoinbase ==
    \/ \E c \in Callers : CoinbaseValidate(c)
    \/ \E c \in Callers : CoinbaseApply(c)

SpecCoinbase == InitCoinbase /\ [][NextCoinbase]_vars

\* C30: with several callers validating coinbases against the same ledger
\* state and applying the accepted ones afterwards, the issued supply never
\* exceeds L28_MAX_SUPPLY
C30_IssuedWithinCap == cb.st = "run" => cb.issued_supply <= L28_MAX_SUPPLY

(***************************************************************************)
(* Rollback and its backup                                                 *)
(***************************************************************************)
\* the lines of a file, as a set
LineSet(lines) == {lines[i] : i \in 1..Len(lines)}

\* C31: every entry a rollback_to_height call removes from the ledger is in
\* the backup file that the same call created before truncating, whatever
\* the appenders do in between
C31_RemovedIsBackedUp ==
    [][\A p \in Writers :
          (pc[p] = "r_replace" /\ pc'[p] = "r_unlock") =>
              \A e \in LineSet(ledger) \ LineSet(ledger') :
                  \E b \in backups : b.ts = op[p].bts /\ e \in LineSet(b.content)]_vars

(***************************************************************************)
(* SpecRollback: rollback_to_height called on any ledger file of up to     *)
(* MaxScan lines, heights in any order.                                    *)
(***************************************************************************)
RollbackLineSet ==
    {EntryLine(h, <<h>>, ZeroHash) : h \in ScanHeights} \cup {BadLine, BlankLine}

InitRollback ==
    /\ ledger \in SeqsUpTo(RollbackLineSet, MaxScan)
    /\ ledger_exists = TRUE
    /\ lock_holders = {}
    /\ pc = [p \in Writers |-> "idle"]
    /\ op = [p \in Writers |-> NoOp]
    /\ temp = [p \in Writers |-> NoTemp]
    /\ backups = {}
    /\ clock = 0
    /\ maint = 0
    /\ report = NoReport
    /\ tx = NoTx
    /\ env = NoEnv
    /\ call = NoCall
    /\ marked = {}
    /\ rw = <<>>
    /\ pow = NoPow
    /\ mined = NoMined
    /\ rd = NoRead
    /\ bridge = NoBridge
    /\ cb = NoCb

NextRollback ==
    \/ \E p \in Writers : StartRollback(p) /\ UNCHANGED validatorSide
    \/ \E p \in Writers : BackupLock(p) /\ UNCHANGED validatorSide
    \/ \E p \in Writers : BackupCopy(p) /\ UNCHANGED validatorSide
    \/ \E p \in Writers : BackupUnlock(p) /\ UNCHANGED validatorSide
    \/ \E p \in Writers : RollbackLock(p) /\ UNCHANGED validatorSide
    \/ \E p \in Writers : RollbackMkstemp(p) /\ UNCHANGED validatorSide
    \/ \E p \in Writers : RollbackCopyLoop(p) /\ UNCHANGED validatorSide
    \/ \E p \in Writers : RollbackReplace(p) /\ UNCHANGED validatorSide
    \/ \E p \in Writers : RollbackRemove(p) /\ UNCHANGED validatorSide
    \/ \E p \in Writers : RollbackUnlock(p) /\ UNCHANGED validatorSide

SpecRollback == InitRollback /\ [][NextRollback]_vars

\* the entries of lines whose height is at most h, in their order
EntriesUpTo(lines, h) ==
    SelectSeq(lines, LAMBDA l : l.kind = "entry" /\ l.entry_height <= h)

\* C32: after a successful rollback_to_height(h) the ledger is exactly the
\* entries of the ledger before the rollback whose height is <= h, in their
\* original order, whatever the order of heights in the file
C32_KeepsAllUpToTarget ==
    \A p \in Writers :
        RolledBack(p) => ledger = EntriesUpTo(op[p].pre, op[p].target)

(***************************************************************************)
(* SpecScan: verify_integrity called on ledger files that may also hold    *)
(* lines that are JSON but not an entry object.                            *)
(***************************************************************************)
InitScan ==
    /\ ledger \in SeqsUpTo(RollbackLineSet \cup {NonObjectLine}, MaxScan)
    /\ ledger_exists = TRUE
    /\ lock_holders = {}
    /\ pc = [p \in Writers |-> "idle"]
    /\ op = [p \in Writers |-> NoOp]
    /\ temp = [p \in Writers |-> NoTemp]
    /\ backups = {}
    /\ clock = 0
    /\ maint = 0
    /\ report = NoReport
    /\ tx = NoTx
    /\ env = NoEnv
    /\ call = NoCall
    /\ marked = {}
    /\ rw = <<>>
    /\ pow = NoPow
    /\ mined = NoMined
    /\ rd = NoRead
    /\ bridge = NoBridge
    /\ cb = NoCb

SpecScan == InitScan /\ [][NextVerify]_vars

\* C33: whatever the lines of the ledger, verify_integrity scans all of
\* them: every line that is not an entry is recorded as an error, and every
\* entry line, also after such a line, is counted in total_entries and
\* checked for a reused height and a broken link (a JSON line that is not
\* an object may be counted as well)
C33_ScanNeverAborts ==
    report # NoReport =>
        LET es == Entries(ledger)
            n == Len(es)
            dup == {j \in 1..n : \E i \in 1..(j - 1) :
                                    es[i].entry_height = es[j].entry_height}
            brk == {j \in 2..n : es[j].prev # es[j - 1].hash}
            unread == {i \in 1..Len(ledger) : ledger[i].kind \in {"bad", "nonobj"}}
            nonobj == {i \in 1..Len(ledger) : ledger[i].kind = "nonobj"}
        IN  /\ report.total_entries \in {n, n + Cardinality(nonobj)}
            /\ Len(report.errors) = Cardinality(unread)
            /\ Len(report.duplicate_heights) = Cardinality(dup)
            /\ Len(report.broken_links) = Cardinality(brk)

(***************************************************************************)
(* The difficulty as a function of the ledger                              *)
(***************************************************************************)
\* C34: the difficulty of a height depends on the height and the ledger
\* alone: whatever calls an instance served before, it returns for a height
\* what a new instance returns for that height on the same ledger
C34_DifficultyOfHistoryOnly ==
    pow.last.how # "none" =>
        pow.last.ret = calculate_difficulty(NewPoW, pow.chain, pow.last.h).ret

(***************************************************************************)
(* SpecPowVal: validate_pow and the P2P node's validate_and_add_entry      *)
(* called on received entries.                                             *)
(***************************************************************************)
\* validate_pow(entry) on the instance P reading chain: the value returned
\* and the instance afterwards; entry.difficulty is IntNone when the entry
\* has no difficulty key
validate_pow(P, chain, entry) ==
    IF entry.difficulty.some
    THEN [ret |-> MeetsDifficulty(entry.hash, entry.difficulty.v), P |-> P]
    ELSE IF is_genesis_locked(entry.entry_height)
    THEN [ret |-> TRUE, P |-> P]
    ELSE LET r == calculate_difficulty(P, chain, entry.entry_height)
         IN  [ret |-> MeetsDifficulty(entry.hash, r.ret), P |-> r.P]

\* validate_and_add_entry: the four required keys, then the leading zeros
\* of the stored hash against the entry's own difficulty
validate_and_add_entry(entry) ==
    entry.difficulty.some /\ MeetsDifficulty(entry.hash, entry.difficulty.v)

\* entries as a peer may send them: at and around the lock, with no
\* difficulty key or a difficulty of its choice, the hash with any number
\* of leading zeros
ReceivedEntries ==
    [entry_height : {GENESIS_LOCKED - 1, GENESIS_LOCKED, GENESIS_LOCKED + 1,
                     GENESIS_LOCKED + DIFFICULTY_WINDOW},
     hash : {sha256_hexdigest([form |-> "given"], z) : z \in ZeroCounts},
     prev : {ZeroHash},
     difficulty : {IntNone, IntSome(0), IntSome(MIN_DIFFICULTY),
                   IntSome(MIN_DIFFICULTY + 1)}]

ValidatePowCall ==
    /\ \E e \in ReceivedEntries :
          LET r == validate_pow(pow.P, pow.chain, e)
          IN  /\ mined' = [st |-> "validate_pow", entry |-> e, ret |-> r.ret]
              /\ pow' = [pow EXCEPT !.P = r.P]
    /\ UNCHANGED powFrame

ValidateAndAddEntryCall ==
    /\ \E e \in ReceivedEntries :
          mined' = [st |-> "validate_and_add_entry", entry |-> e,
                    ret |-> validate_and_add_entry(e)]
    /\ UNCHANGED <<pow, powFrame>>

NextPowVal ==
    \/ ValidatePowCall
    \/ ValidateAndAddEntryCall

SpecPowVal == InitPow /\ [][NextPowVal]_vars

\* C35: validate_pow returns true for every entry of a genesis-locked
\* height, whatever its hash and with or without a difficulty field; above
\* the lock it returns true exactly when the stored hash has as many
\* leading zeros as the difficulty the entry records
C35_ValidatePowRule ==
    mined.st = "validate_pow" =>
        LET e == mined.entry
        IN  IF is_genesis_locked(e.entry_height) THEN mined.ret
            ELSE e.difficulty.some =>
                    (mined.ret <=> MeetsDifficulty(e.hash, e.difficulty.v))

\* C37: every entry above the lock that validate_pow or the node's
\* validate_and_add_entry accepts has a stored hash of at least
\* MIN_DIFFICULTY leading zeros, whatever difficulty the entry records
C37_MinimumBar ==
    (/\ mined.st \in {"validate_pow", "validate_and_add_entry"}
     /\ mined.ret
     /\ ~is_genesis_locked(mined.entry.entry_height)) =>
        mined.entry.hash.zeros >= MIN_DIFFICULTY

(***************************************************************************)
(* Transaction ids                                                         *)
(***************************************************************************)
\* C36: for every coinbase made by build_coinbase_tx, the id stored in the
\* transaction, under which the ledger indexes it, is the tx id that
\* validate_transaction computes for it and that is recorded for replay
\* detection
C36_OneIdConvention ==
    cb.st = "run" =>
        \A c \in Callers :
            cb.pending[c] # NoTx => cb.pending[c]["id"] = compute_tx_id(cb.pending[c])

(***************************************************************************)
(* SpecBackup: several create_backup calls, alone or inside                *)
(* rollback_to_height, on one ledger while the clock runs.                 *)
(***************************************************************************)
MaxBackups == 2     \* backup and rollback calls in one run of SpecBackup

\* create_backup called directly: the path is named by the clock reading
\* taken before the lock is asked for
CreateBackupCall(p) ==
    /\ pc[p] = "idle"
    /\ maint < MaxBackups
    /\ maint' = maint + 1
    /\ op' = [op EXCEPT ![p] = [NoOp EXCEPT !.kind = "backup", !.bts = clock]]
    /\ pc' = [pc EXCEPT ![p] = "b_lock"]
    /\ UNCHANGED <<ledger, ledger_exists, lock_holders, temp, backups, clock>>

NextBackup ==
    \/ \E p \in Writers : CreateBackupCall(p) /\ UNCHANGED validatorSide
    \/ \E p \in Writers : StartRollback(p) /\ UNCHANGED validatorSide
    \/ \E p \in Writers : BackupLock(p) /\ UNCHANGED validatorSide
    \/ \E p \in Writers : BackupCopy(p) /\ UNCHANGED validatorSide
    \/ \E p \in Writers : BackupUnlock(p) /\ UNCHANGED validatorSide
    \/ \E p \in Writers : RollbackLock(p) /\ UNCHANGED validatorSide
    \/ \E p \in Writers : RollbackMkstemp(p) /\ UNCHANGED validatorSide
    \/ \E p \in Writers : RollbackCopyLoop(p) /\ UNCHANGED validatorSide
    \/ \E p \in Writers : RollbackReplace(p) /\ UNCHANGED validatorSide
    \/ \E p \in Writers : RollbackRemove(p) /\ UNCHANGED validatorSide
    \/ \E p \in Writers : RollbackUnlock(p) /\ UNCHANGED validatorSide
    \/ Tick /\ UNCHANGED validatorSide

SpecBackup == Init /\ [][NextBackup]_vars

\* C38: every backup copy, also the one taken inside rollback_to_height,
\* writes to a path that held no backup before
C38_BackupPathFresh ==
    [][\A p \in Writers :
          (pc[p] = "b_copy" /\ pc'[p] = "b_unlock" /\ op'[p].ret # "raised") =>
              ~\E b \in backups : b.ts = op[p].bts]_vars

(***************************************************************************)
(* Balances under concurrent bridges                                       *)
(***************************************************************************)
\* C39: under any interleaving of bridge coroutines on one coordinator no
\* network balance is ever negative
C39_NoNegativeBalance ==
    \A n \in Networks : bridge.balances[n] >= 0

(***************************************************************************)
(* The genesis-locked prefix                                               *)
(***************************************************************************)
\* C40: no ledger operation removes or alters an entry whose height is
\* genesis-locked: every such entry of the ledger is still in it, at its
\* place, after every step
C40_LockedPrefixKept ==
    [][\A i \in 1..Len(ledger) :
          (ledger[i].kind = "entry" /\ is_genesis_locked(ledger[i].entry_height)) =>
              (Len(ledger') >= i /\ ledger'[i] = ledger[i])]_vars

====
